---- MODULE Spec2Model ----
(***************************************************************************)
(* Hybrid retrieval engine of the Judicial-AI-Chatbot repository:          *)
(*   src/src/embeddings/vector_store.py   VectorStore                      *)
(*   src/src/retrieval/hybrid_retriever.py HybridRetriever                 *)
(*   src/src/pipeline.py                   RAGPipeline.__init__            *)
(*                                                                         *)
(* Numbers.  Similarities and TF-IDF scores are real numbers in the code;  *)
(* here they are integers counted in tenths (3 is 0.3).  A fused score is  *)
(* a sum of score/(60+rank) terms; it is kept as an exact integer          *)
(* numerator over the common denominator FusionDen.                        *)
(*                                                                         *)
(* External libraries (chromadb, faiss, sklearn, sentence-transformers)    *)
(* are the environment: the distances the vector index reports and the     *)
(* TF-IDF dot products are inputs of the retrieve action, and any of the   *)
(* library calls may raise.                                                *)
(***************************************************************************)
EXTENDS Integers, Sequences, FiniteSets, TLC

(***************************************************************************)
(* Bounds of the model.                                                    *)
(***************************************************************************)
\* largest number of chunks the stores are filled with
MaxDocs == 2
\* largest number of documents (and of embeddings) passed to one add_documents call
MaxBatch == 2
\* largest k passed to retrieve
MaxK == 2
\* largest number of rows of the TF-IDF matrix the sparse search is run on by itself
MaxRows == 3

(***************************************************************************)
(* Program constants.                                                      *)
(***************************************************************************)
\* settings.RETRIEVAL_K
RETRIEVAL_K == 5
\* settings.RETRIEVAL_K_MAX
RETRIEVAL_K_MAX == 15
\* settings.SIMILARITY_THRESHOLD (0.3), in tenths
SIMILARITY_THRESHOLD == 3
\* the 60 of "1.0 / (60 + rank)"
RRF_C == 60
\* the 100 of doc.get("text", "")[:100]
KeyLen == 100
\* batch_size of _add_to_chroma
batch_size == 5000

Min(a, b) == IF a <= b THEN a ELSE b

(***************************************************************************)
(* Strings.  A query, an answer typed by the user or a text is the         *)
(* sequence of its characters, each the number of its code point (ord).    *)
(* The tables of the characters are those of the Unicode database of the   *)
(* Python that runs the program (version 14.0.0).                          *)
(***************************************************************************)
\* the str whose characters are the printable ASCII characters chars, each written as
\* a one-character string (three that a string of this module cannot hold are
\* written by name): Text(<<"o", "k">>) is 'ok', the sequence <<111, 107>>
Text(chars) ==
    LET printable ==
            <<" ", "!", "quote", "#", "$", "%", "&", "'", "(", ")", "*", "+", ",", "-",
              ".", "/", "0", "1", "2", "3", "4", "5", "6", "7", "8", "9", ":", ";", "<",
              "=", ">", "?", "@", "A", "B", "C", "D", "E", "F", "G", "H", "I", "J", "K",
              "L", "M", "N", "O", "P", "Q", "R", "S", "T", "U", "V", "W", "X", "Y", "Z",
              "[", "backslash", "]", "^", "_", "backtick", "a", "b", "c", "d", "e", "f",
              "g", "h", "i", "j", "k", "l", "m", "n", "o", "p", "q", "r", "s", "t", "u",
              "v", "w", "x", "y", "z", "{", "|", "}", "~">>
        ord(c) == 31 + CHOOSE i \in 1..Len(printable) : printable[i] = c
    IN  [i \in 1..Len(chars) |-> ord(chars[i])]

\* the characters str.strip(), str.split() and the pattern \s take for whitespace
\* (those of str.isspace): U+0009 to U+000D, U+001C to U+001F, U+0020, U+0085, U+00A0,
\* U+1680, U+2000 to U+200A, U+2028, U+2029, U+202F, U+205F, U+3000
Whitespace ==
    (9..13) \cup (28..31) \cup {32, 133, 160, 5760} \cup (8192..8202)
        \cup {8232, 8233, 8239, 8287, 12288}

\* the lower-case mapping of str.lower() for every character it changes, but for the
\* capital sigma, whose mapping depends on its place (see Lower).  Each entry
\* <<first, last, step, delta>> of ranges says: the characters first, first + step, ...,
\* last map to themselves plus delta.  U+0130 maps to the two characters U+0069 U+0307.
LowerOf ==
    LET ranges ==
            <<<<65, 90, 1, 32>>, <<192, 214, 1, 32>>, <<216, 222, 1, 32>>,
              <<256, 302, 2, 1>>, <<306, 310, 2, 1>>, <<313, 327, 2, 1>>,
              <<330, 374, 2, 1>>, <<376, 376, 1, -121>>, <<377, 381, 2, 1>>,
              <<385, 385, 1, 210>>, <<386, 388, 2, 1>>, <<390, 390, 1, 206>>,
              <<391, 391, 1, 1>>, <<393, 394, 1, 205>>, <<395, 395, 1, 1>>,
              <<398, 398, 1, 79>>, <<399, 399, 1, 202>>, <<400, 400, 1, 203>>,
              <<401, 401, 1, 1>>, <<403, 403, 1, 205>>, <<404, 404, 1, 207>>,
              <<406, 406, 1, 211>>, <<407, 407, 1, 209>>, <<408, 408, 1, 1>>,
              <<412, 412, 1, 211>>, <<413, 413, 1, 213>>, <<415, 415, 1, 214>>,
              <<416, 420, 2, 1>>, <<422, 422, 1, 218>>, <<423, 423, 1, 1>>,
              <<425, 425, 1, 218>>, <<428, 428, 1, 1>>, <<430, 430, 1, 218>>,
              <<431, 431, 1, 1>>, <<433, 434, 1, 217>>, <<435, 437, 2, 1>>,
              <<439, 439, 1, 219>>, <<440, 440, 1, 1>>, <<444, 444, 1, 1>>,
              <<452, 452, 1, 2>>, <<453, 453, 1, 1>>, <<455, 455, 1, 2>>,
              <<456, 456, 1, 1>>, <<458, 458, 1, 2>>, <<459, 475, 2, 1>>,
              <<478, 494, 2, 1>>, <<497, 497, 1, 2>>, <<498, 500, 2, 1>>,
              <<502, 502, 1, -97>>, <<503, 503, 1, -56>>, <<504, 542, 2, 1>>,
              <<544, 544, 1, -130>>, <<546, 562, 2, 1>>, <<570, 570, 1, 10795>>,
              <<571, 571, 1, 1>>, <<573, 573, 1, -163>>, <<574, 574, 1, 10792>>,
              <<577, 577, 1, 1>>, <<579, 579, 1, -195>>, <<580, 580, 1, 69>>,
              <<581, 581, 1, 71>>, <<582, 590, 2, 1>>, <<880, 882, 2, 1>>,
              <<886, 886, 1, 1>>, <<895, 895, 1, 116>>, <<902, 902, 1, 38>>,
              <<904, 906, 1, 37>>, <<908, 908, 1, 64>>, <<910, 911, 1, 63>>,
              <<913, 929, 1, 32>>, <<931, 939, 1, 32>>, <<975, 975, 1, 8>>,
              <<984, 1006, 2, 1>>, <<1012, 1012, 1, -60>>, <<1015, 1015, 1, 1>>,
              <<1017, 1017, 1, -7>>, <<1018, 1018, 1, 1>>, <<1021, 1023, 1, -130>>,
              <<1024, 1039, 1, 80>>, <<1040, 1071, 1, 32>>, <<1120, 1152, 2, 1>>,
              <<1162, 1214, 2, 1>>, <<1216, 1216, 1, 15>>, <<1217, 1229, 2, 1>>,
              <<1232, 1326, 2, 1>>, <<1329, 1366, 1, 48>>, <<4256, 4293, 1, 7264>>,
              <<4295, 4295, 1, 7264>>, <<4301, 4301, 1, 7264>>,
              <<5024, 5103, 1, 38864>>, <<5104, 5109, 1, 8>>, <<7312, 7354, 1, -3008>>,
              <<7357, 7359, 1, -3008>>, <<7680, 7828, 2, 1>>, <<7838, 7838, 1, -7615>>,
              <<7840, 7934, 2, 1>>, <<7944, 7951, 1, -8>>, <<7960, 7965, 1, -8>>,
              <<7976, 7983, 1, -8>>, <<7992, 7999, 1, -8>>, <<8008, 8013, 1, -8>>,
              <<8025, 8031, 2, -8>>, <<8040, 8047, 1, -8>>, <<8072, 8079, 1, -8>>,
              <<8088, 8095, 1, -8>>, <<8104, 8111, 1, -8>>, <<8120, 8121, 1, -8>>,
              <<8122, 8123, 1, -74>>, <<8124, 8124, 1, -9>>, <<8136, 8139, 1, -86>>,
              <<8140, 8140, 1, -9>>, <<8152, 8153, 1, -8>>, <<8154, 8155, 1, -100>>,
              <<8168, 8169, 1, -8>>, <<8170, 8171, 1, -112>>, <<8172, 8172, 1, -7>>,
              <<8184, 8185, 1, -128>>, <<8186, 8187, 1, -126>>, <<8188, 8188, 1, -9>>,
              <<8486, 8486, 1, -7517>>, <<8490, 8490, 1, -8383>>,
              <<8491, 8491, 1, -8262>>, <<8498, 8498, 1, 28>>, <<8544, 8559, 1, 16>>,
              <<8579, 8579, 1, 1>>, <<9398, 9423, 1, 26>>, <<11264, 11311, 1, 48>>,
              <<11360, 11360, 1, 1>>, <<11362, 11362, 1, -10743>>,
              <<11363, 11363, 1, -3814>>, <<11364, 11364, 1, -10727>>,
              <<11367, 11371, 2, 1>>, <<11373, 11373, 1, -10780>>,
              <<11374, 11374, 1, -10749>>, <<11375, 11375, 1, -10783>>,
              <<11376, 11376, 1, -10782>>, <<11378, 11378, 1, 1>>,
              <<11381, 11381, 1, 1>>, <<11390, 11391, 1, -10815>>,
              <<11392, 11490, 2, 1>>, <<11499, 11501, 2, 1>>, <<11506, 11506, 1, 1>>,
              <<42560, 42604, 2, 1>>, <<42624, 42650, 2, 1>>, <<42786, 42798, 2, 1>>,
              <<42802, 42862, 2, 1>>, <<42873, 42875, 2, 1>>,
              <<42877, 42877, 1, -35332>>, <<42878, 42886, 2, 1>>,
              <<42891, 42891, 1, 1>>, <<42893, 42893, 1, -42280>>,
              <<42896, 42898, 2, 1>>, <<42902, 42920, 2, 1>>,
              <<42922, 42922, 1, -42308>>, <<42923, 42923, 1, -42319>>,
              <<42924, 42924, 1, -42315>>, <<42925, 42925, 1, -42305>>,
              <<42926, 42926, 1, -42308>>, <<42928, 42928, 1, -42258>>,
              <<42929, 42929, 1, -42282>>, <<42930, 42930, 1, -42261>>,
              <<42931, 42931, 1, 928>>, <<42932, 42946, 2, 1>>,
              <<42948, 42948, 1, -48>>, <<42949, 42949, 1, -42307>>,
              <<42950, 42950, 1, -35384>>, <<42951, 42953, 2, 1>>,
              <<42960, 42960, 1, 1>>, <<42966, 42968, 2, 1>>, <<42997, 42997, 1, 1>>,
              <<65313, 65338, 1, 32>>, <<66560, 66599, 1, 40>>, <<66736, 66771, 1, 40>>,
              <<66928, 66938, 1, 39>>, <<66940, 66954, 1, 39>>, <<66956, 66962, 1, 39>>,
              <<66964, 66965, 1, 39>>, <<68736, 68786, 1, 64>>, <<71840, 71871, 1, 32>>,
              <<93760, 93791, 1, 32>>, <<125184, 125217, 1, 34>>, <<304, 304, 1, 0>>>>
        Domain(r) == {r[1] + r[3] * i : i \in 0..((r[2] - r[1]) \div r[3])}
    IN  [c \in UNION {Domain(ranges[i]) : i \in 1..Len(ranges)} |->
            IF c = 304 THEN <<105, 775>>
            ELSE <<c + ranges[CHOOSE i \in 1..Len(ranges) : c \in Domain(ranges[i])][4]>>]

\* s.lower().  A capital sigma (U+03A3) becomes the final sigma U+03C2 when a cased
\* character comes before it and none after it, case-ignorable characters between
\* them left aside, else U+03C3.  cased lists the ranges <<first, last>> of the cased
\* characters that are not case-ignorable, case_ignorable those of the case-ignorable.
Lower(s) ==
    LET cased ==
            <<<<65, 90>>, <<97, 122>>, <<170, 170>>, <<181, 181>>, <<186, 186>>,
              <<192, 214>>, <<216, 246>>, <<248, 442>>, <<444, 447>>, <<452, 659>>,
              <<661, 687>>, <<880, 883>>, <<886, 887>>, <<891, 893>>, <<895, 895>>,
              <<902, 902>>, <<904, 906>>, <<908, 908>>, <<910, 929>>, <<931, 1013>>,
              <<1015, 1153>>, <<1162, 1327>>, <<1329, 1366>>, <<1376, 1416>>,
              <<4256, 4293>>, <<4295, 4295>>, <<4301, 4301>>, <<4304, 4346>>,
              <<4349, 4351>>, <<5024, 5109>>, <<5112, 5117>>, <<7296, 7304>>,
              <<7312, 7354>>, <<7357, 7359>>, <<7424, 7467>>, <<7531, 7543>>,
              <<7545, 7578>>, <<7680, 7957>>, <<7960, 7965>>, <<7968, 8005>>,
              <<8008, 8013>>, <<8016, 8023>>, <<8025, 8025>>, <<8027, 8027>>,
              <<8029, 8029>>, <<8031, 8061>>, <<8064, 8116>>, <<8118, 8124>>,
              <<8126, 8126>>, <<8130, 8132>>, <<8134, 8140>>, <<8144, 8147>>,
              <<8150, 8155>>, <<8160, 8172>>, <<8178, 8180>>, <<8182, 8188>>,
              <<8450, 8450>>, <<8455, 8455>>, <<8458, 8467>>, <<8469, 8469>>,
              <<8473, 8477>>, <<8484, 8484>>, <<8486, 8486>>, <<8488, 8488>>,
              <<8490, 8493>>, <<8495, 8500>>, <<8505, 8505>>, <<8508, 8511>>,
              <<8517, 8521>>, <<8526, 8526>>, <<8544, 8575>>, <<8579, 8580>>,
              <<9398, 9449>>, <<11264, 11387>>, <<11390, 11492>>, <<11499, 11502>>,
              <<11506, 11507>>, <<11520, 11557>>, <<11559, 11559>>, <<11565, 11565>>,
              <<42560, 42605>>, <<42624, 42651>>, <<42786, 42863>>, <<42865, 42887>>,
              <<42891, 42894>>, <<42896, 42954>>, <<42960, 42961>>, <<42963, 42963>>,
              <<42965, 42969>>, <<42997, 42998>>, <<43002, 43002>>, <<43824, 43866>>,
              <<43872, 43880>>, <<43888, 43967>>, <<64256, 64262>>, <<64275, 64279>>,
              <<65313, 65338>>, <<65345, 65370>>, <<66560, 66639>>, <<66736, 66771>>,
              <<66776, 66811>>, <<66928, 66938>>, <<66940, 66954>>, <<66956, 66962>>,
              <<66964, 66965>>, <<66967, 66977>>, <<66979, 66993>>, <<66995, 67001>>,
              <<67003, 67004>>, <<68736, 68786>>, <<68800, 68850>>, <<71840, 71903>>,
              <<93760, 93823>>, <<119808, 119892>>, <<119894, 119964>>,
              <<119966, 119967>>, <<119970, 119970>>, <<119973, 119974>>,
              <<119977, 119980>>, <<119982, 119993>>, <<119995, 119995>>,
              <<119997, 120003>>, <<120005, 120069>>, <<120071, 120074>>,
              <<120077, 120084>>, <<120086, 120092>>, <<120094, 120121>>,
              <<120123, 120126>>, <<120128, 120132>>, <<120134, 120134>>,
              <<120138, 120144>>, <<120146, 120485>>, <<120488, 120512>>,
              <<120514, 120538>>, <<120540, 120570>>, <<120572, 120596>>,
              <<120598, 120628>>, <<120630, 120654>>, <<120656, 120686>>,
              <<120688, 120712>>, <<120714, 120744>>, <<120746, 120770>>,
              <<120772, 120779>>, <<122624, 122633>>, <<122635, 122654>>,
              <<125184, 125251>>, <<127280, 127305>>, <<127312, 127337>>,
              <<127344, 127369>>>>
        case_ignorable ==
            <<<<39, 39>>, <<46, 46>>, <<58, 58>>, <<94, 94>>, <<96, 96>>, <<168, 168>>,
              <<173, 173>>, <<175, 175>>, <<180, 180>>, <<183, 184>>, <<688, 879>>,
              <<884, 885>>, <<890, 890>>, <<900, 901>>, <<903, 903>>, <<1155, 1161>>,
              <<1369, 1369>>, <<1375, 1375>>, <<1425, 1469>>, <<1471, 1471>>,
              <<1473, 1474>>, <<1476, 1477>>, <<1479, 1479>>, <<1524, 1524>>,
              <<1536, 1541>>, <<1552, 1562>>, <<1564, 1564>>, <<1600, 1600>>,
              <<1611, 1631>>, <<1648, 1648>>, <<1750, 1757>>, <<1759, 1768>>,
              <<1770, 1773>>, <<1807, 1807>>, <<1809, 1809>>, <<1840, 1866>>,
              <<1958, 1968>>, <<2027, 2037>>, <<2042, 2042>>, <<2045, 2045>>,
              <<2070, 2093>>, <<2137, 2139>>, <<2184, 2184>>, <<2192, 2193>>,
              <<2200, 2207>>, <<2249, 2306>>, <<2362, 2362>>, <<2364, 2364>>,
              <<2369, 2376>>, <<2381, 2381>>, <<2385, 2391>>, <<2402, 2403>>,
              <<2417, 2417>>, <<2433, 2433>>, <<2492, 2492>>, <<2497, 2500>>,
              <<2509, 2509>>, <<2530, 2531>>, <<2558, 2558>>, <<2561, 2562>>,
              <<2620, 2620>>, <<2625, 2626>>, <<2631, 2632>>, <<2635, 2637>>,
              <<2641, 2641>>, <<2672, 2673>>, <<2677, 2677>>, <<2689, 2690>>,
              <<2748, 2748>>, <<2753, 2757>>, <<2759, 2760>>, <<2765, 2765>>,
              <<2786, 2787>>, <<2810, 2815>>, <<2817, 2817>>, <<2876, 2876>>,
              <<2879, 2879>>, <<2881, 2884>>, <<2893, 2893>>, <<2901, 2902>>,
              <<2914, 2915>>, <<2946, 2946>>, <<3008, 3008>>, <<3021, 3021>>,
              <<3072, 3072>>, <<3076, 3076>>, <<3132, 3132>>, <<3134, 3136>>,
              <<3142, 3144>>, <<3146, 3149>>, <<3157, 3158>>, <<3170, 3171>>,
              <<3201, 3201>>, <<3260, 3260>>, <<3263, 3263>>, <<3270, 3270>>,
              <<3276, 3277>>, <<3298, 3299>>, <<3328, 3329>>, <<3387, 3388>>,
              <<3393, 3396>>, <<3405, 3405>>, <<3426, 3427>>, <<3457, 3457>>,
              <<3530, 3530>>, <<3538, 3540>>, <<3542, 3542>>, <<3633, 3633>>,
              <<3636, 3642>>, <<3654, 3662>>, <<3761, 3761>>, <<3764, 3772>>,
              <<3782, 3782>>, <<3784, 3789>>, <<3864, 3865>>, <<3893, 3893>>,
              <<3895, 3895>>, <<3897, 3897>>, <<3953, 3966>>, <<3968, 3972>>,
              <<3974, 3975>>, <<3981, 3991>>, <<3993, 4028>>, <<4038, 4038>>,
              <<4141, 4144>>, <<4146, 4151>>, <<4153, 4154>>, <<4157, 4158>>,
              <<4184, 4185>>, <<4190, 4192>>, <<4209, 4212>>, <<4226, 4226>>,
              <<4229, 4230>>, <<4237, 4237>>, <<4253, 4253>>, <<4348, 4348>>,
              <<4957, 4959>>, <<5906, 5908>>, <<5938, 5939>>, <<5970, 5971>>,
              <<6002, 6003>>, <<6068, 6069>>, <<6071, 6077>>, <<6086, 6086>>,
              <<6089, 6099>>, <<6103, 6103>>, <<6109, 6109>>, <<6155, 6159>>,
              <<6211, 6211>>, <<6277, 6278>>, <<6313, 6313>>, <<6432, 6434>>,
              <<6439, 6440>>, <<6450, 6450>>, <<6457, 6459>>, <<6679, 6680>>,
              <<6683, 6683>>, <<6742, 6742>>, <<6744, 6750>>, <<6752, 6752>>,
              <<6754, 6754>>, <<6757, 6764>>, <<6771, 6780>>, <<6783, 6783>>,
              <<6823, 6823>>, <<6832, 6862>>, <<6912, 6915>>, <<6964, 6964>>,
              <<6966, 6970>>, <<6972, 6972>>, <<6978, 6978>>, <<7019, 7027>>,
              <<7040, 7041>>, <<7074, 7077>>, <<7080, 7081>>, <<7083, 7085>>,
              <<7142, 7142>>, <<7144, 7145>>, <<7149, 7149>>, <<7151, 7153>>,
              <<7212, 7219>>, <<7222, 7223>>, <<7288, 7293>>, <<7376, 7378>>,
              <<7380, 7392>>, <<7394, 7400>>, <<7405, 7405>>, <<7412, 7412>>,
              <<7416, 7417>>, <<7468, 7530>>, <<7544, 7544>>, <<7579, 7679>>,
              <<8125, 8125>>, <<8127, 8129>>, <<8141, 8143>>, <<8157, 8159>>,
              <<8173, 8175>>, <<8189, 8190>>, <<8203, 8207>>, <<8216, 8217>>,
              <<8228, 8228>>, <<8231, 8231>>, <<8234, 8238>>, <<8288, 8292>>,
              <<8294, 8303>>, <<8305, 8305>>, <<8319, 8319>>, <<8336, 8348>>,
              <<8400, 8432>>, <<11388, 11389>>, <<11503, 11505>>, <<11631, 11631>>,
              <<11647, 11647>>, <<11744, 11775>>, <<11823, 11823>>, <<12293, 12293>>,
              <<12330, 12333>>, <<12337, 12341>>, <<12347, 12347>>, <<12441, 12446>>,
              <<12540, 12542>>, <<40981, 40981>>, <<42232, 42237>>, <<42508, 42508>>,
              <<42607, 42610>>, <<42612, 42621>>, <<42623, 42623>>, <<42652, 42655>>,
              <<42736, 42737>>, <<42752, 42785>>, <<42864, 42864>>, <<42888, 42890>>,
              <<42994, 42996>>, <<43000, 43001>>, <<43010, 43010>>, <<43014, 43014>>,
              <<43019, 43019>>, <<43045, 43046>>, <<43052, 43052>>, <<43204, 43205>>,
              <<43232, 43249>>, <<43263, 43263>>, <<43302, 43309>>, <<43335, 43345>>,
              <<43392, 43394>>, <<43443, 43443>>, <<43446, 43449>>, <<43452, 43453>>,
              <<43471, 43471>>, <<43493, 43494>>, <<43561, 43566>>, <<43569, 43570>>,
              <<43573, 43574>>, <<43587, 43587>>, <<43596, 43596>>, <<43632, 43632>>,
              <<43644, 43644>>, <<43696, 43696>>, <<43698, 43700>>, <<43703, 43704>>,
              <<43710, 43711>>, <<43713, 43713>>, <<43741, 43741>>, <<43756, 43757>>,
              <<43763, 43764>>, <<43766, 43766>>, <<43867, 43871>>, <<43881, 43883>>,
              <<44005, 44005>>, <<44008, 44008>>, <<44013, 44013>>, <<64286, 64286>>,
              <<64434, 64450>>, <<65024, 65039>>, <<65043, 65043>>, <<65056, 65071>>,
              <<65106, 65106>>, <<65109, 65109>>, <<65279, 65279>>, <<65287, 65287>>,
              <<65294, 65294>>, <<65306, 65306>>, <<65342, 65342>>, <<65344, 65344>>,
              <<65392, 65392>>, <<65438, 65439>>, <<65507, 65507>>, <<65529, 65531>>,
              <<66045, 66045>>, <<66272, 66272>>, <<66422, 66426>>, <<67456, 67461>>,
              <<67463, 67504>>, <<67506, 67514>>, <<68097, 68099>>, <<68101, 68102>>,
              <<68108, 68111>>, <<68152, 68154>>, <<68159, 68159>>, <<68325, 68326>>,
              <<68900, 68903>>, <<69291, 69292>>, <<69446, 69456>>, <<69506, 69509>>,
              <<69633, 69633>>, <<69688, 69702>>, <<69744, 69744>>, <<69747, 69748>>,
              <<69759, 69761>>, <<69811, 69814>>, <<69817, 69818>>, <<69821, 69821>>,
              <<69826, 69826>>, <<69837, 69837>>, <<69888, 69890>>, <<69927, 69931>>,
              <<69933, 69940>>, <<70003, 70003>>, <<70016, 70017>>, <<70070, 70078>>,
              <<70089, 70092>>, <<70095, 70095>>, <<70191, 70193>>, <<70196, 70196>>,
              <<70198, 70199>>, <<70206, 70206>>, <<70367, 70367>>, <<70371, 70378>>,
              <<70400, 70401>>, <<70459, 70460>>, <<70464, 70464>>, <<70502, 70508>>,
              <<70512, 70516>>, <<70712, 70719>>, <<70722, 70724>>, <<70726, 70726>>,
              <<70750, 70750>>, <<70835, 70840>>, <<70842, 70842>>, <<70847, 70848>>,
              <<70850, 70851>>, <<71090, 71093>>, <<71100, 71101>>, <<71103, 71104>>,
              <<71132, 71133>>, <<71219, 71226>>, <<71229, 71229>>, <<71231, 71232>>,
              <<71339, 71339>>, <<71341, 71341>>, <<71344, 71349>>, <<71351, 71351>>,
              <<71453, 71455>>, <<71458, 71461>>, <<71463, 71467>>, <<71727, 71735>>,
              <<71737, 71738>>, <<71995, 71996>>, <<71998, 71998>>, <<72003, 72003>>,
              <<72148, 72151>>, <<72154, 72155>>, <<72160, 72160>>, <<72193, 72202>>,
              <<72243, 72248>>, <<72251, 72254>>, <<72263, 72263>>, <<72273, 72278>>,
              <<72281, 72283>>, <<72330, 72342>>, <<72344, 72345>>, <<72752, 72758>>,
              <<72760, 72765>>, <<72767, 72767>>, <<72850, 72871>>, <<72874, 72880>>,
              <<72882, 72883>>, <<72885, 72886>>, <<73009, 73014>>, <<73018, 73018>>,
              <<73020, 73021>>, <<73023, 73029>>, <<73031, 73031>>, <<73104, 73105>>,
              <<73109, 73109>>, <<73111, 73111>>, <<73459, 73460>>, <<78896, 78904>>,
              <<92912, 92916>>, <<92976, 92982>>, <<92992, 92995>>, <<94031, 94031>>,
              <<94095, 94111>>, <<94176, 94177>>, <<94179, 94180>>, <<110576, 110579>>,
              <<110581, 110587>>, <<110589, 110590>>, <<113821, 113822>>,
              <<113824, 113827>>, <<118528, 118573>>, <<118576, 118598>>,
              <<119143, 119145>>, <<119155, 119170>>, <<119173, 119179>>,
              <<119210, 119213>>, <<119362, 119364>>, <<121344, 121398>>,
              <<121403, 121452>>, <<121461, 121461>>, <<121476, 121476>>,
              <<121499, 121503>>, <<121505, 121519>>, <<122880, 122886>>,
              <<122888, 122904>>, <<122907, 122913>>, <<122915, 122916>>,
              <<122918, 122922>>, <<123184, 123197>>, <<123566, 123566>>,
              <<123628, 123631>>, <<125136, 125142>>, <<125252, 125259>>,
              <<127995, 127999>>, <<917505, 917505>>, <<917536, 917631>>,
              <<917760, 917999>>>>
        In(c, ranges) == \E i \in 1..Len(ranges) : ranges[i][1] <= c /\ c <= ranges[i][2]
        RECURSIVE CasedBefore(_)
        CasedBefore(j) ==
            IF j < 1 THEN FALSE
            ELSE IF In(s[j], case_ignorable) THEN CasedBefore(j - 1)
            ELSE In(s[j], cased)
        RECURSIVE CasedAfter(_)
        CasedAfter(j) ==
            IF j > Len(s) THEN FALSE
            ELSE IF In(s[j], case_ignorable) THEN CasedAfter(j + 1)
            ELSE In(s[j], cased)
        LowerAt(i) ==
            IF s[i] = 931
            THEN (IF CasedBefore(i - 1) /\ ~CasedAfter(i + 1) THEN <<962>> ELSE <<963>>)
            ELSE IF s[i] \in DOMAIN LowerOf THEN LowerOf[s[i]]
            ELSE <<s[i]>>
        RECURSIVE From(_)
        From(i) == IF i > Len(s) THEN <<>> ELSE LowerAt(i) \o From(i + 1)
    IN  From(1)

\* s.strip()
RECURSIVE Strip(_)
Strip(s) ==
    IF s = <<>> THEN s
    ELSE IF s[1] \in Whitespace THEN Strip(Tail(s))
    ELSE IF s[Len(s)] \in Whitespace THEN Strip(SubSeq(s, 1, Len(s) - 1))
    ELSE s

\* not s or len(s.strip()) == 0
IsBlank(s) == s = <<>> \/ Len(Strip(s)) = 0

(***************************************************************************)
(* Chunks.  A document is a dict with "text" and metadata; the model keeps *)
(* the text, chunk_id, the crime_types value (a plain string, a list of     *)
(* strings as MetadataExtractor produces, or none as the chunker leaves    *)
(* it),                                                                    *)
(* whether the dict refers to itself (RAGPipeline.build_index stores the   *)
(* chunk into its own "metadata" entry) and whether the values have been   *)
(* passed through str() (the metadata Chroma stores and returns).          *)
(***************************************************************************)
\* A text is kept run-length encoded: the sequence of its maximal runs [c, n] of n >= 1
\* equal characters c (code points).  Two texts are equal exactly when their encodings
\* are.
Run(c, n) == [c |-> c, n |-> n]
RECURSIVE TextLen(_)
TextLen(text) == IF text = <<>> THEN 0 ELSE text[1].n + TextLen(Tail(text))

\* text[:n]
RECURSIVE TextPrefix(_, _)
TextPrefix(text, n) ==
    IF n <= 0 \/ text = <<>> THEN <<>>
    ELSE IF text[1].n >= n THEN <<Run(text[1].c, n)>>
    ELSE <<text[1]>> \o TextPrefix(Tail(text), n - text[1].n)

\* two distinct texts that agree on their first 100 characters, and a short one:
\* 'a' * 100 + 'x', 'a' * 100 + 'y' and 'bank'
TextA1 == <<Run(97, KeyLen), Run(120, 1)>>
TextA2 == <<Run(97, KeyLen), Run(121, 1)>>
TextB == <<Run(98, 1), Run(97, 1), Run(110, 1), Run(107, 1)>>

\* a page that names two crimes: 'theft robbery'
TextTheftRobbery ==
    <<Run(116, 1), Run(104, 1), Run(101, 1), Run(102, 1), Run(116, 1), Run(32, 1),
      Run(114, 1), Run(111, 1), Run(98, 2), Run(101, 1), Run(114, 1), Run(121, 1)>>

\* a metadata value: a string, a list of strings, or no entry under the key
StrValue(s) == [kind |-> "str", items |-> <<s>>]
ListValue(items) == [kind |-> "list", items |-> items]
NoValue == [kind |-> "absent", items |-> <<>>]

ChunkA1 == [text |-> TextA1, chunk_id |-> 0, crime_types |-> StrValue("robbery"),
            circular |-> FALSE, stringified |-> FALSE]
ChunkA2 == [text |-> TextA2, chunk_id |-> 1, crime_types |-> StrValue("fraud"),
            circular |-> FALSE, stringified |-> FALSE]
ChunkB == [text |-> TextB, chunk_id |-> 2, crime_types |-> ListValue(<<"robbery">>),
           circular |-> TRUE, stringified |-> FALSE]

Chunks == {ChunkA1, ChunkA2, ChunkB}

\* the non-empty lists of at most n chunks
RECURSIVE ChunkLists(_)
ChunkLists(n) ==
    IF n = 0 THEN {}
    ELSE {<<c>> : c \in Chunks} \cup
         {Append(l, c) : l \in ChunkLists(n - 1), c \in Chunks}

(***************************************************************************)
(* Python dicts keep insertion order: a dict is a sequence of entries.     *)
(***************************************************************************)
EmptyDict == <<>>
DictLen(d) == Len(d)
DictKeys(d) == {d[i].k : i \in 1..Len(d)}
DictHas(d, key) == key \in DictKeys(d)
DictGet(d, key) == (CHOOSE e \in {d[i] : i \in 1..Len(d)} : e.k = key).v
DictSet(d, key, val) ==
    IF DictHas(d, key)
    THEN [i \in 1..Len(d) |-> IF d[i].k = key THEN [k |-> key, v |-> val] ELSE d[i]]
    ELSE Append(d, [k |-> key, v |-> val])
DictValues(d) == [i \in 1..Len(d) |-> d[i].v]

\* A dict key carries its Python type: str(i) and the integer i are different keys.
Str(i) == [t |-> "str", s |-> ToString(i)]
IntKey(i) == [t |-> "int", s |-> ToString(i)]

(***************************************************************************)
(* State.                                                                  *)
(***************************************************************************)
VARIABLES
    store_type,      \* VectorStore.store_type: "chroma" or "faiss"
    faiss_importable,\* "import faiss" succeeds in this installation
    use_hybrid,      \* settings.USE_HYBRID_RETRIEVAL
    collection,      \* the persistent Chroma collection: entries [id, doc], in insertion order
    faiss_store,     \* VectorStore.store on the FAISS backend: [none, vecs]
    faiss_file,      \* the <collection>.index file: [none, vecs]
    metadata_store,  \* VectorStore.metadata_store (in memory)
    metadata_file,   \* the <collection>_metadata.json file: [status, data]
    vectorizer,      \* HybridRetriever.vectorizer is not None
    tfidf_rows,      \* the texts HybridRetriever.tfidf_matrix has one row for, in row order
    pc,              \* "idle", or "returned" while the caller holds the result of a call
    call,            \* the last call: its arguments, what it computed and what it returned
    added,           \* the chunks of the add_documents calls that returned True, in order
    all_ok,          \* every add_documents call so far returned True with its metadata saved
    callers,         \* the concurrent callers of retrieve: where each is in its call, and its locals
    conversation_history,     \* ConversationManager.conversation_history
    case_details,             \* ConversationManager.case_details
    conversation_state,       \* ConversationManager.conversation_state
    user_ready_for_analysis   \* ConversationManager.user_ready_for_analysis

\* the attributes of the ConversationManager
manager_vars ==
    <<conversation_history, case_details, conversation_state, user_ready_for_analysis>>

vars == <<store_type, faiss_importable, use_hybrid, collection, faiss_store, faiss_file, metadata_store,
          metadata_file, vectorizer, tfidf_rows, pc, call, added, all_ok, callers,
          conversation_history, case_details, conversation_state, user_ready_for_analysis>>

(***************************************************************************)
(* VectorStore._save_metadata and _load_metadata.                          *)
(***************************************************************************)
AbsentFile == [status |-> "absent", data |-> EmptyDict]
CorruptFile == [status |-> "corrupt", data |-> EmptyDict]
ValidFile(d) == [status |-> "valid", data |-> d]

\* the copy _save_metadata stores: ndarray values become lists, all else is kept
SerializableDoc(doc) == doc

\* json.dump raises on a dict that contains itself
JsonSerializable(d) == \A i \in 1..Len(d) : ~d[i].v.circular

\* for i, doc in enumerate(documents): metadata_store[str(start_idx + i)] = serializable_doc
RECURSIVE AppendDocuments(_, _, _, _)
AppendDocuments(d, documents, start_idx, i) ==
    IF i >= Len(documents) THEN d
    ELSE AppendDocuments(DictSet(d, Str(start_idx + i), SerializableDoc(documents[i + 1])),
                         documents, start_idx, i + 1)

\* io is "none", "open" (open(path, "w") raises) or "write" (the write raises part-way).
\* The whole body is inside try/except: nothing is raised to the caller.
SaveMetadata(mem, file, documents, io) ==
    IF file.status = "corrupt"
    THEN \* json.load raises before anything is appended
         [mem |-> mem, file |-> file, saved |-> FALSE]
    ELSE LET loaded == IF file.status = "valid" THEN file.data ELSE mem
             start_idx == DictLen(loaded)
             appended == AppendDocuments(loaded, documents, start_idx, 0)
         IN  IF io = "open"
             THEN [mem |-> appended, file |-> file, saved |-> FALSE]
             ELSE IF io = "write" \/ ~JsonSerializable(appended)
             THEN \* the file was truncated and holds a prefix of the JSON text
                  [mem |-> appended, file |-> CorruptFile, saved |-> FALSE]
             ELSE [mem |-> appended, file |-> ValidFile(appended), saved |-> TRUE]

LoadMetadata(file) ==
    IF file.status = "valid" THEN file.data ELSE EmptyDict

(***************************************************************************)
(* VectorStore._add_to_chroma and _add_to_faiss.                           *)
(***************************************************************************)
\* meta = {k: str(v) for k, v in doc.items() if k != "text"}, kept with the text
ChromaRecord(doc) == [doc EXCEPT !.stringified = TRUE, !.circular = FALSE]

CollectionIds(coll) == {coll[i].id : i \in 1..Len(coll)}

\* collection.add: a record whose id the collection already holds is ignored
RECURSIVE CollectionAdd(_, _, _, _)
CollectionAdd(coll, batch_docs, first_id, j) ==
    IF j > Len(batch_docs) THEN coll
    ELSE LET id == first_id + j - 1
             next == IF id \in CollectionIds(coll) THEN coll
                     ELSE Append(coll, [id |-> id, doc |-> ChromaRecord(batch_docs[j])])
         IN  CollectionAdd(next, batch_docs, first_id, j + 1)

\* for i in range(0, len(documents), batch_size): the batch numbered fail_at raises
RECURSIVE ChromaBatches(_, _, _, _)
ChromaBatches(coll, documents, i, fail_at) ==
    IF i >= Len(documents) THEN [coll |-> coll, raised |-> FALSE]
    ELSE IF fail_at = (i \div batch_size) + 1 THEN [coll |-> coll, raised |-> TRUE]
    ELSE LET batch_end_idx == Min(i + batch_size, Len(documents))
             batch_docs == SubSeq(documents, i + 1, batch_end_idx)
         IN  ChromaBatches(CollectionAdd(coll, batch_docs, i, 1), documents,
                           i + batch_size, fail_at)

NumBatches(documents) == (Len(documents) + batch_size - 1) \div batch_size

(***************************************************************************)
(* Exceptions.  A call either returns a value or raises; try/except        *)
(* Exception turns a raise into the handler's value.                       *)
(***************************************************************************)
Return(v) == [exc |-> FALSE, val |-> v]
Raise == [exc |-> TRUE, val |-> <<>>]
\* no handler: the exception goes on to the caller
TryOrEmpty_reraise(r) == r
\* try: body / except Exception: return []
TryOrEmpty(r) == IF r.exc THEN Return(<<>>) ELSE r

(***************************************************************************)
(* What the libraries report for one query: the environment of retrieve.   *)
(***************************************************************************)
\* similarities (tenths) 1 - distance/2 the Chroma index can report for an ordinary
\* query: one below the threshold and one that just reaches it
DenseSims == {0, 3}
\* similarity (tenths) 1/(1 + distance) of a FAISS neighbour
FaissSims == {5}
\* the query embedding is np.zeros(dim) (empty query, or model.encode raised): under the
\* cosine metric every stored vector is at distance 1.0, similarity 1 - 1.0/2
ZeroVectorSim == 5
\* what the index reports for a zero query vector is the same for every stored vector:
\* distance 1.0, or (the cosine of a zero vector being undefined) not a number, which
\* no comparison with the threshold accepts and which is kept here as 0
ZeroVectorSims == {{ZeroVectorSim}, {0}}
\* TF-IDF dot products (tenths) of the query with a row
SparseScores == {0, 3}

\* the ranked lists of m distinct positions out of pos, each with a score out of
\* scores, best first (scores never increase along the list)
RECURSIVE RankedLists(_, _, _)
RankedLists(pos, m, scores) ==
    IF m = 0 \/ pos = {} THEN {<<>>}
    ELSE UNION {{<<[idx |-> p[1], score |-> p[2]]>> \o rest :
                    rest \in RankedLists(pos \ {p[1]}, m - 1, {t \in scores : t <= p[2]})} :
                p \in pos \X scores}

(***************************************************************************)
(* EmbeddingGenerator.embed_text: the zero vector for an empty or          *)
(* whitespace-only text and when model.encode raises (the exception is     *)
(* caught inside embed_text); the model's vector otherwise.                *)
(***************************************************************************)
\* the queries retrieve is called with: "" and "robbery punishment"
Queries == {<<>>,
            Text(<<"r", "o", "b", "b", "e", "r", "y", " ",
                   "p", "u", "n", "i", "s", "h", "m", "e", "n", "t">>)}

\* encode_raises: model.encode(text) raises; it is called for a text that is not blank
embed_text(text, encode_raises) ==
    IF IsBlank(text) THEN "zero"
    ELSE IF encode_raises THEN "zero"
    ELSE "vector"

(***************************************************************************)
(* VectorStore.search, _search_chroma, _search_faiss.                      *)
(* hits is what the index reports: [idx, score] with idx a position of the *)
(* collection (Chroma) or a vector ordinal (FAISS), score the similarity   *)
(* the code computes from the reported distance.                           *)
(***************************************************************************)
NoFilter == [key |-> "", value |-> ""]
Filters == {NoFilter, [key |-> "crime_types", value |-> "robbery"]}

\* a where clause that lets every record through
WhereMatches_any(record, filter_dict) == TRUE
\* where={"crime_types": value}: the stored metadata value is the str() of the chunk's
\* value, which equals the filter value only when the chunk's value is that string
WhereMatches(record, filter_dict) ==
    \/ filter_dict = NoFilter
    \/ /\ filter_dict.key = "crime_types"
       /\ record.crime_types = StrValue(filter_dict.value)

MatchingPositions(coll, filter_dict) ==
    {i \in 1..Len(coll) : WhereMatches(coll[i].doc, filter_dict)}

\* output.append((doc, similarity)) for every id of the query result
ChromaOutput(coll, hits) ==
    [i \in 1..Len(hits) |-> [doc |-> coll[hits[i].idx].doc, score |-> hits[i].score]]

_search_chroma(coll, hits, query_raises) ==
    TryOrEmpty(IF query_raises THEN Raise ELSE Return(ChromaOutput(coll, hits)))

\* for idx, distance in zip(indices[0], distances[0]): the lookup metadata_store[idx]
\* uses the integer idx as key
RECURSIVE FaissOutput(_, _, _, _)
FaissOutput(mem, hits, i, output) ==
    IF i > Len(hits) THEN Return(output)
    ELSE IF hits[i].idx < DictLen(mem)
    THEN IF DictHas(mem, IntKey(hits[i].idx))
         THEN FaissOutput(mem, hits, i + 1,
                          Append(output, [doc |-> DictGet(mem, IntKey(hits[i].idx)),
                                          score |-> hits[i].score]))
         ELSE Raise   \* KeyError
    ELSE FaissOutput(mem, hits, i + 1, output)

_search_faiss(store, mem, hits, search_raises) ==
    TryOrEmpty(IF store.none \/ search_raises THEN Raise
               ELSE FaissOutput(mem, hits, 1, <<>>))

\* VectorStore.search: dispatch on the store type, inside its own try/except
search(stype, coll, store, mem, hits, index_raises) ==
    TryOrEmpty(IF stype = "chroma" THEN _search_chroma(coll, hits, index_raises)
               ELSE _search_faiss(store, mem, hits, index_raises))

(***************************************************************************)
(* HybridRetriever._dense_search.                                          *)
(***************************************************************************)
\* [(doc, score) for doc, score in results if score >= settings.SIMILARITY_THRESHOLD]
AboveThreshold(r) == r.score >= SIMILARITY_THRESHOLD
\* ThresholdFilter left out
ThresholdFilter_none(results) == results
\* ThresholdFilter with > in place of >=
BeyondThreshold(r) == r.score > SIMILARITY_THRESHOLD
ThresholdFilter_strict(results) == SelectSeq(results, BeyondThreshold)
ThresholdFilter(results) == SelectSeq(results, AboveThreshold)

\* found is what vector_store.search returned (or raised)
_dense_search(found) ==
    TryOrEmpty(IF found.exc THEN Raise ELSE Return(ThresholdFilter(found.val)))

(***************************************************************************)
(* HybridRetriever._build_bm25_index and _sparse_search.                   *)
(***************************************************************************)
\* texts = [doc.get("text", "") for doc in metadata_store.values()]
StoreTexts(mem) == [i \in 1..DictLen(mem) |-> DictValues(mem)[i].text]

\* fit_raises: TfidfVectorizer.fit_transform raised (for example on an empty vocabulary)
_build_bm25_index(mem, fit_raises) ==
    LET texts == StoreTexts(mem)
    IN  IF Len(texts) > 0 /\ ~fit_raises
        THEN [vectorizer |-> TRUE, tfidf_rows |-> texts]
        ELSE [vectorizer |-> FALSE, tfidf_rows |-> <<>>]

\* ranked is np.argsort(-scores) with the scores: every row index, best score first
\* for idx, score in zip(top_indices, top_scores): ...
RECURSIVE SparseOutput(_, _, _, _)
SparseOutput(mem, top, i, results) ==
    IF i > Len(top) THEN results
    ELSE LET idx == top[i].idx
             score == top[i].score
         IN  IF score > 0 /\ idx < DictLen(mem) /\ DictHas(mem, Str(idx))
             THEN SparseOutput(mem, top, i + 1,
                               Append(results, [doc |-> DictGet(mem, Str(idx)), score |-> score]))
             ELSE SparseOutput(mem, top, i + 1, results)

\* the sequence s in reverse order
Reversed(s) == [i \in 1..Len(s) |-> s[Len(s) + 1 - i]]

\* _sparse_search that takes the k rows from the wrong end of the order
\* (np.argsort(scores) in place of np.argsort(-scores))
_sparse_search_ascending(has_vectorizer, mem, ranked, k, transform_raises) ==
    IF ~has_vectorizer THEN Return(<<>>)
    ELSE TryOrEmpty(IF transform_raises THEN Raise
                    ELSE Return(SparseOutput(mem, SubSeq(Reversed(ranked), 1,
                                                         Min(k, Len(ranked))), 1, <<>>)))

_sparse_search(has_vectorizer, mem, ranked, k, transform_raises) ==
    IF ~has_vectorizer THEN Return(<<>>)
    ELSE TryOrEmpty(IF transform_raises THEN Raise
                    ELSE Return(SparseOutput(mem, SubSeq(ranked, 1, Min(k, Len(ranked))),
                                             1, <<>>)))

(***************************************************************************)
(* HybridRetriever._aggregate_results.                                     *)
(***************************************************************************)
\* common denominator of 1/(60 + rank) for every rank a list of the model can have
FusionDen ==
    LET RECURSIVE Gcd(_, _)
        Gcd(a, b) == IF b = 0 THEN a ELSE Gcd(b, a % b)
        Lcm(a, b) == (a \div Gcd(a, b)) * b
        RECURSIVE LcmRange(_, _)
        LcmRange(lo, hi) == IF lo >= hi THEN lo ELSE Lcm(LcmRange(lo, hi - 1), hi)
    IN  LcmRange(RRF_C, RRF_C + MaxDocs)
\* rrf_score = 1.0 / (60 + rank), as a numerator over FusionDen
rrf_score(rank) == FusionDen \div (RRF_C + rank)

\* doc_key = doc.get("text", "")[:100]
doc_key(doc) == TextPrefix(doc.text, KeyLen)

\* for rank, (doc, score) in enumerate(results):
\*     result_scores[doc_key] = result_scores.get(doc_key, 0) + rrf_score * score
RECURSIVE Accumulate(_, _, _)
Accumulate(result_scores, results, rank) ==
    IF rank >= Len(results) THEN result_scores
    ELSE LET key == doc_key(results[rank + 1].doc)
             old == IF DictHas(result_scores, key) THEN DictGet(result_scores, key) ELSE 0
         IN  Accumulate(DictSet(result_scores, key, old + rrf_score(rank) * results[rank + 1].score),
                        results, rank + 1)

\* InsertDesc that puts an item before the items of equal score (an ascending stable
\* sort followed by a reversal)
RECURSIVE InsertDesc_reversed_ties(_, _)
InsertDesc_reversed_ties(sorted, item) ==
    IF sorted = <<>> THEN <<item>>
    ELSE IF sorted[Len(sorted)].v > item.v THEN Append(sorted, item)
    ELSE Append(InsertDesc_reversed_ties(SubSeq(sorted, 1, Len(sorted) - 1), item),
                sorted[Len(sorted)])

\* sorted(items, key=lambda x: x[1], reverse=True): stable, equal scores keep their order
RECURSIVE InsertDesc(_, _)
InsertDesc(sorted, item) ==
    IF sorted = <<>> THEN <<item>>
    ELSE IF sorted[Len(sorted)].v >= item.v THEN Append(sorted, item)
    ELSE Append(InsertDesc(SubSeq(sorted, 1, Len(sorted) - 1), item), sorted[Len(sorted)])

RECURSIVE SortedDesc(_, _, _)
SortedDesc(items, i, sorted) ==
    IF i > Len(items) THEN sorted
    ELSE SortedDesc(items, i + 1, InsertDesc(sorted, items[i]))

\* for doc, _ in dense_results + sparse_results: if doc.get("text", "")[:100] == doc_key
FirstWithKey(results, key) ==
    LET i == CHOOSE i \in 1..Len(results) :
                 /\ doc_key(results[i].doc) = key
                 /\ \A j \in 1..(i - 1) : doc_key(results[j].doc) # key
    IN  results[i].doc

ResultScores(dense_results, sparse_results) ==
    Accumulate(Accumulate(EmptyDict, dense_results, 0), sparse_results, 0)

\* fusion that merges nothing: the first k of dense + sparse with their native scores
_aggregate_results_unmerged(dense_results, sparse_results, k) ==
    SubSeq(dense_results \o sparse_results, 1,
           Min(k, Len(dense_results) + Len(sparse_results)))

_aggregate_results(dense_results, sparse_results, k) ==
    LET result_scores == ResultScores(dense_results, sparse_results)
        sorted_results == SortedDesc(result_scores, 1, <<>>)
        top == SubSeq(sorted_results, 1, Min(k, Len(sorted_results)))
        final_results == [i \in 1..Len(top) |->
                            [doc |-> FirstWithKey(dense_results \o sparse_results, top[i].k),
                             score |-> top[i].v]]
    IN  SubSeq(final_results, 1, Min(k, Len(final_results)))

(***************************************************************************)
(* HybridRetriever.retrieve.                                               *)
(***************************************************************************)
\* k = k or settings.RETRIEVAL_K
EffectiveK(k) == IF k = 0 THEN RETRIEVAL_K ELSE k

\* the number of candidates each sub-search is asked for
FetchCount(k, hybrid) ==
    IF hybrid THEN Min(EffectiveK(k) * 2, RETRIEVAL_K_MAX) ELSE EffectiveK(k)

\* retrieve that fuses the two lists whatever the mode
retrieve_always_fuse(hybrid, k, dense, sparse) ==
    IF dense.exc \/ sparse.exc THEN Raise
    ELSE Return(_aggregate_results(dense.val, sparse.val, EffectiveK(k)))

\* dense and sparse are the outcomes of the two sub-searches (sparse is not run, and
\* passed as an empty return, when hybrid mode is off)
retrieve(hybrid, k, dense, sparse) ==
    IF ~hybrid THEN dense
    ELSE IF dense.exc \/ sparse.exc THEN Raise
    ELSE Return(_aggregate_results(dense.val, sparse.val, EffectiveK(k)))

(***************************************************************************)
(* VectorStore._initialize_store and _initialize_store_with_fallback.      *)
(* primary_raises: the initialization of the configured backend raises     *)
(* (chromadb.PersistentClient or get_or_create_collection; faiss.read_index*)
(* of _init_faiss).  fallback_raises: the Chroma calls of the fallback     *)
(* raise.  On FAISS the fallback is reached only from "except ImportError";*)
(* every other exception goes to the outer handler, which re-raises.       *)
(***************************************************************************)
_initialize_store_with_fallback(fallback_raises) ==
    [raised |-> fallback_raises, primary_failed |-> TRUE, fallback_failed |-> fallback_raises]

_initialize_store(stype, importable, primary_raises, fallback_raises) ==
    IF stype = "chroma"
    THEN [raised |-> primary_raises, primary_failed |-> primary_raises,
          fallback_failed |-> FALSE]
    ELSE IF ~importable THEN _initialize_store_with_fallback(fallback_raises)
    ELSE [raised |-> primary_raises, primary_failed |-> primary_raises,
          fallback_failed |-> FALSE]

\* the library failures _initialize_store can meet
InitEnv(stype, importable) ==
    IF stype = "faiss" /\ ~importable
    THEN {[primary_raises |-> FALSE, fallback_raises |-> f] : f \in BOOLEAN}
    ELSE {[primary_raises |-> f, fallback_raises |-> FALSE] : f \in BOOLEAN}

(***************************************************************************)
(* QueryProcessor.process_query and RAGPipeline.answer_query.              *)
(***************************************************************************)
\* the queries answer_query is called with: "", " " and " robbery  punishment "
RawQueries == {<<>>, Text(<<" ">>),
               Text(<<" ", "r", "o", "b", "b", "e", "r", "y", " ", " ",
                      "p", "u", "n", "i", "s", "h", "m", "e", "n", "t", " ">>)}

\* " ".join(query.split()), the U.S.C. substitution (the section sign is replaced by
\* itself), strip()
_clean_query(query) ==
    LET \* query.split(): the maximal runs of characters that are not whitespace
        RECURSIVE SplitFrom(_, _, _)
        SplitFrom(s, word, words) ==
            IF s = <<>> THEN (IF word = <<>> THEN words ELSE Append(words, word))
            ELSE IF s[1] \in Whitespace
            THEN SplitFrom(Tail(s), <<>>, IF word = <<>> THEN words ELSE Append(words, word))
            ELSE SplitFrom(Tail(s), Append(word, s[1]), words)
        \* " ".join(words)
        RECURSIVE Join(_)
        Join(words) ==
            IF words = <<>> THEN <<>>
            ELSE IF Len(words) = 1 THEN words[1]
            ELSE words[1] \o <<32>> \o Join(Tail(words))
        \* the position after an optional character of set at position i of s
        SkipOptional(s, i, set) == IF i >= 1 /\ i <= Len(s) /\ s[i] \in set THEN i + 1 ELSE i
        \* the position after the character c at position i of s, 0 when it is not
        \* there (or when i is already 0)
        SkipRequired(s, i, c) == IF i >= 1 /\ i <= Len(s) /\ s[i] = c THEN i + 1 ELSE 0
        \* the pattern U\.?\s?S\.?\s?C\.? matched at the head of s: the position after
        \* the match, 0 when there is none.  None of the optional characters can stand
        \* for the letter that follows it, so the greedy match is the only one.
        \* (85, 83, 67 and 46 are 'U', 'S', 'C' and '.')
        UscMatch(s) ==
            LET u == SkipRequired(s, 1, 85)
                sl == SkipRequired(s, SkipOptional(s, SkipOptional(s, u, {46}),
                                                   Whitespace), 83)
                cl == SkipRequired(s, SkipOptional(s, SkipOptional(s, sl, {46}),
                                                   Whitespace), 67)
            IN  IF u = 0 \/ sl = 0 \/ cl = 0 THEN 0 ELSE SkipOptional(s, cl, {46})
        \* re.sub(r"U\.?\s?S\.?\s?C\.?", "U.S.C.", s): every match, left to right
        RECURSIVE UscSub(_)
        UscSub(s) ==
            IF s = <<>> THEN <<>>
            ELSE LET m == UscMatch(s)
                 IN  IF m > 0
                     THEN \* 'U.S.C.'
                          <<85, 46, 83, 46, 67, 46>> \o UscSub(SubSeq(s, m, Len(s)))
                     ELSE <<s[1]>> \o UscSub(Tail(s))
    IN  Strip(UscSub(Join(SplitFrom(query, <<>>, <<>>))))

\* the dict process_query returns: for a blank query it has the keys "original" and
\* "expanded" only
process_query(query) ==
    IF IsBlank(query)
    THEN [original |-> query, has_cleaned |-> FALSE, cleaned |-> <<>>]
    ELSE [original |-> query, has_cleaned |-> TRUE, cleaned |-> _clean_query(query)]

\* RAGGenerator.generate_answer: the LLM's answer, or the fallback answer when there is
\* no client or the LLM call raises
generate_answer(retrieved_docs, llm_ok) ==
    [status |-> IF llm_ok THEN "success" ELSE "fallback - LLM unavailable",
     retrieved_docs_count |-> Len(retrieved_docs)]

ErrorResult == [status |-> "error", retrieved_docs_count |-> 0]

\* retrieved is the outcome of retriever.retrieve(processed_query["cleaned"], k=5);
\* any exception inside the try makes the error result
answer_query(processed_query, retrieved, llm_ok) ==
    IF ~processed_query.has_cleaned THEN ErrorResult   \* KeyError: 'cleaned'
    ELSE IF retrieved.exc THEN ErrorResult
    ELSE generate_answer(retrieved.val, llm_ok)

(***************************************************************************)
(* VectorStore.add_documents.                                              *)
(* fault names the library call that raises during the call: "none";       *)
(* "backend1" (Chroma: collection.add of the first batch, FAISS:           *)
(* store.add); "backend2" (Chroma: collection.add of the second batch,     *)
(* FAISS: faiss.write_index); "open" (open(path, "w") of the metadata      *)
(* file); "write" (json.dump, part-way through the file).                  *)
(***************************************************************************)
Faults == {"none", "backend1", "backend2", "open", "write"}
BackendFault(fault) == IF fault = "backend1" THEN 1 ELSE IF fault = "backend2" THEN 2 ELSE 0
IoFault(fault) == IF fault \in {"open", "write"} THEN fault ELSE "none"

EmptyIndex == [none |-> FALSE, vecs |-> <<>>]
NoIndex == [none |-> TRUE, vecs |-> <<>>]

_add_to_chroma(st, documents, fault) ==
    LET done == ChromaBatches(st.collection, documents, 0, BackendFault(fault))
    IN  IF done.raised
        THEN [st EXCEPT !.collection = done.coll, !.returned = FALSE, !.saved = FALSE]
        ELSE LET sv == SaveMetadata(st.mem, st.file, documents, IoFault(fault))
             IN  [st EXCEPT !.collection = done.coll, !.mem = sv.mem, !.file = sv.file,
                            !.returned = TRUE, !.saved = sv.saved]

_add_to_faiss(st, documents, fault) ==
    LET index == IF st.store.none THEN EmptyIndex ELSE st.store
        grown == [index EXCEPT !.vecs = index.vecs \o documents]
    IN  IF ~st.importable
        THEN \* "import faiss" raises ImportError inside the try
             [st EXCEPT !.returned = FALSE, !.saved = FALSE]
        ELSE IF documents = <<>>
        THEN \* np.array([]) has one axis: embeddings_array.shape[1] raises IndexError
             \* when there is no index yet, store.add raises on the shape when there is
             [st EXCEPT !.returned = FALSE, !.saved = FALSE]
        ELSE IF BackendFault(fault) = 1
        THEN [st EXCEPT !.store = index, !.returned = FALSE, !.saved = FALSE]
        ELSE IF BackendFault(fault) = 2
        THEN [st EXCEPT !.store = grown, !.returned = FALSE, !.saved = FALSE]
        ELSE LET sv == SaveMetadata(st.mem, st.file, documents, IoFault(fault))
             IN  [st EXCEPT !.store = grown, !.index_file = grown, !.mem = sv.mem,
                            !.file = sv.file, !.returned = TRUE, !.saved = sv.saved]

\* add_documents without the comparison of the two lengths
add_documents_unchecked(st, documents, nembeddings, fault) ==
    IF st.store_type = "chroma" THEN _add_to_chroma(st, documents, fault)
    ELSE _add_to_faiss(st, documents, fault)

\* st is the store's state before the call; the result is its state after the call,
\* with the value returned and whether the metadata file was written
add_documents(st, documents, nembeddings, fault) ==
    IF Len(documents) # nembeddings
    THEN [st EXCEPT !.returned = FALSE, !.saved = FALSE]
    ELSE IF st.store_type = "chroma" THEN _add_to_chroma(st, documents, fault)
    ELSE _add_to_faiss(st, documents, fault)

StoreState ==
    [store_type |-> store_type, importable |-> faiss_importable,
     collection |-> collection, store |-> faiss_store,
     index_file |-> faiss_file, mem |-> metadata_store, file |-> metadata_file,
     returned |-> FALSE, saved |-> FALSE]

\* VectorStore.get_collection_size: collection.count() on Chroma, store.ntotal on FAISS
\* (0 when the store is None; when faiss could not be imported the store is the Chroma
\* client of the fallback, which has no ntotal: the AttributeError is caught, 0 returned).
\* count_raises: collection.count() or the read of store.ntotal raises; the exception is
\* caught and 0 returned.
get_collection_size(st, count_raises) ==
    IF st.store_type = "chroma" THEN (IF count_raises THEN 0 ELSE Len(st.collection))
    ELSE IF ~st.importable \/ st.store.none THEN 0
    ELSE IF count_raises THEN 0
    ELSE Len(st.store.vecs)

(***************************************************************************)
(* RAGPipeline.build_index.                                                *)
(***************************************************************************)
\* MetadataExtractor.CRIME_KEYWORDS, each with its spelling
CRIME_KEYWORDS ==
    {[name |-> "robbery",
      chars |-> Text(<<"r", "o", "b", "b", "e", "r", "y">>)],
     [name |-> "theft",
      chars |-> Text(<<"t", "h", "e", "f", "t">>)],
     [name |-> "assault",
      chars |-> Text(<<"a", "s", "s", "a", "u", "l", "t">>)],
     [name |-> "battery",
      chars |-> Text(<<"b", "a", "t", "t", "e", "r", "y">>)],
     [name |-> "burglary",
      chars |-> Text(<<"b", "u", "r", "g", "l", "a", "r", "y">>)],
     [name |-> "larceny",
      chars |-> Text(<<"l", "a", "r", "c", "e", "n", "y">>)],
     [name |-> "fraud",
      chars |-> Text(<<"f", "r", "a", "u", "d">>)],
     [name |-> "embezzlement",
      chars |-> Text(<<"e", "m", "b", "e", "z", "z", "l", "e", "m", "e", "n", "t">>)],
     [name |-> "forgery",
      chars |-> Text(<<"f", "o", "r", "g", "e", "r", "y">>)],
     [name |-> "counterfeiting",
      chars |-> Text(<<"c", "o", "u", "n", "t", "e", "r", "f", "e", "i", "t", "i", "n",
                       "g">>)],
     [name |-> "kidnapping",
      chars |-> Text(<<"k", "i", "d", "n", "a", "p", "p", "i", "n", "g">>)],
     [name |-> "murder",
      chars |-> Text(<<"m", "u", "r", "d", "e", "r">>)],
     [name |-> "manslaughter",
      chars |-> Text(<<"m", "a", "n", "s", "l", "a", "u", "g", "h", "t", "e", "r">>)],
     [name |-> "homicide",
      chars |-> Text(<<"h", "o", "m", "i", "c", "i", "d", "e">>)],
     [name |-> "rape",
      chars |-> Text(<<"r", "a", "p", "e">>)],
     [name |-> "arson",
      chars |-> Text(<<"a", "r", "s", "o", "n">>)],
     [name |-> "drug",
      chars |-> Text(<<"d", "r", "u", "g">>)],
     [name |-> "conspiracy",
      chars |-> Text(<<"c", "o", "n", "s", "p", "i", "r", "a", "c", "y">>)],
     [name |-> "corruption",
      chars |-> Text(<<"c", "o", "r", "r", "u", "p", "t", "i", "o", "n">>)],
     [name |-> "bribery",
      chars |-> Text(<<"b", "r", "i", "b", "e", "r", "y">>)],
     [name |-> "extortion",
      chars |-> Text(<<"e", "x", "t", "o", "r", "t", "i", "o", "n">>)],
     [name |-> "blackmail",
      chars |-> Text(<<"b", "l", "a", "c", "k", "m", "a", "i", "l">>)]}

\* MetadataExtractor._extract_crime_types(text): the lists it can return.  The list
\* holds the keywords that occur in text.lower(), each once; it is built with
\* list(set(crimes)), whose order changes with the hash seed of the process, so every
\* order of the keywords found is an outcome.
_extract_crime_types(text) ==
    LET \* the characters of the run-length encoded text
        RECURSIVE Expand(_)
        Expand(runs) ==
            IF runs = <<>> THEN <<>>
            ELSE [i \in 1..runs[1].n |-> runs[1].c] \o Expand(Tail(runs))
        text_lower == Lower(Expand(text))
        \* word in s
        Contains(s, word) ==
            \E i \in 0..(Len(s) - Len(word)) : \A j \in 1..Len(word) : s[i + j] = word[j]
        found == {crime.name : crime \in {k \in CRIME_KEYWORDS :
                                               Contains(text_lower, k.chars)}}
        \* the lists that hold each element of crimes once
        RECURSIVE Orders(_)
        Orders(crimes) ==
            IF crimes = {} THEN {<<>>}
            ELSE UNION {{<<crime>> \o rest : rest \in Orders(crimes \ {crime})} :
                           crime \in crimes}
    IN  Orders(found)

\* _extract_crime_types of the texts the model's chunks have, computed once
CrimeTypesOf ==
    [text \in {TextA1, TextA2, TextB, TextTheftRobbery} |-> _extract_crime_types(text)]

\* MetadataExtractor.extract_metadata(chunk["text"], chunk): writes the extracted lists
\* into the dict it was given and returns that dict; crime_types becomes the list of
\* the crime keywords found in the text, whatever the dict held under that key.
\* crime_types is the list _extract_crime_types(chunk["text"]) returned in this call,
\* one of its outcomes.
extract_metadata(chunk, crime_types) ==
    [chunk EXCEPT !.crime_types = ListValue(crime_types)]

\* chunk["metadata"] = extract_metadata(chunk["text"], chunk): the chunk holds itself
WithOwnMetadata(chunk, crime_types) ==
    [extract_metadata(chunk, crime_types) EXCEPT !.circular = TRUE]

\* the lists _extract_crime_types can return for the chunks of one build_index call,
\* one list for each chunk: within a process a set of keywords has one order (another
\* call may run in another process, with another order)
CrimeTypeLists(chunks) ==
    LET outcomes(text) == IF text \in DOMAIN CrimeTypesOf THEN CrimeTypesOf[text]
                          ELSE _extract_crime_types(text)
        Range(list) == {list[i] : i \in 1..Len(list)}
        RECURSIVE Lists(_)
        Lists(n) ==
            IF n = 0 THEN {<<>>}
            ELSE {Append(lists, crime_types) :
                      lists \in Lists(n - 1), crime_types \in outcomes(chunks[n].text)}
    IN  {lists \in Lists(Len(chunks)) :
            \A i, j \in 1..Len(chunks) :
                Range(lists[i]) = Range(lists[j]) => lists[i] = lists[j]}

\* the chunks build_index passes to add_documents for the chunks the PDF yields, when
\* crime_types[i] is the list _extract_crime_types returned for the i-th chunk
BuiltChunks(chunks, crime_types) ==
    [i \in 1..Len(chunks) |-> WithOwnMetadata(chunks[i], crime_types[i])]

\* count_raises: as in get_collection_size;
\* chunks is what the PDF yields after parsing, cleaning and chunking; crime_types
\* holds for each chunk the list _extract_crime_types returned for it; extract_raises:
\* pdf_parser.extract_text_with_metadata raised; fault: as in add_documents.
\* embed_texts returns one embedding per text (zero vectors when model.encode raises);
\* the value add_documents returns is not looked at.
build_index(st, force_rebuild, count_raises, chunks, crime_types, extract_raises, fault) ==
    IF get_collection_size(st, count_raises) > 0 /\ ~force_rebuild
    THEN [st |-> st, returned |-> TRUE, extracted |-> FALSE, add_called |-> FALSE]
    ELSE IF extract_raises
    THEN [st |-> st, returned |-> FALSE, extracted |-> TRUE, add_called |-> FALSE]
    ELSE LET all_chunks == BuiltChunks(chunks, crime_types)
         IN  [st |-> add_documents(st, all_chunks, Len(all_chunks), fault),
              returned |-> TRUE, extracted |-> TRUE, add_called |-> TRUE]

\* the number of vectors the backend holds
VectorCount ==
    IF store_type = "chroma" THEN Len(collection) ELSE Len(faiss_store.vecs)

(***************************************************************************)
(* The call record.                                                        *)
(***************************************************************************)
\* what a VectorStore holds, in memory and on disk
Contents(st) ==
    [collection |-> st.collection, store |-> st.store, index_file |-> st.index_file,
     mem |-> st.mem, file |-> st.file]

NoCall ==
    [op |-> "none", query |-> <<>>, k |-> 0, filters |-> NoFilter, documents |-> <<>>,
     nembeddings |-> 0, fault |-> "none", before |-> <<>>, saved |-> FALSE,
     force_rebuild |-> FALSE, extracted |-> FALSE, add_called |-> FALSE,
     add_returned |-> FALSE, status |-> "", ndocs |-> 0,
     primary_failed |-> FALSE, fallback_failed |-> FALSE,
     returned |-> FALSE, fetch |-> 0, sparse_fetch |-> 0, ranked |-> <<>>,
     found |-> <<>>, dense |-> <<>>, sparse |-> <<>>,
     sparse_ran |-> FALSE, encode_raised |-> FALSE, dense_failed |-> FALSE,
     sparse_failed |-> FALSE, result |-> <<>>, raised |-> FALSE]

\* the threads that call retrieve on the one retriever at the same time
Callers == {"c1", "c2"}

\* a caller outside retrieve
IdleCaller ==
    [pc |-> "idle", k |-> 0, n |-> 0, before |-> <<>>, dense |-> <<>>, sparse |-> <<>>,
     result |-> <<>>, raised |-> FALSE, overlapped |-> FALSE]

(***************************************************************************)
(* ConversationManager.  A manager is the record of its four attributes;   *)
(* every method gives the manager after the call, whether the call raised  *)
(* and the flag it returned.  A history entry is kept without its          *)
(* timestamp.                                                              *)
(***************************************************************************)
\* ConversationManager.__init__
NewManager ==
    [conversation_history |-> <<>>,
     case_details |-> [initial_issue |-> <<>>, additional_context |-> <<>>, dates |-> <<>>,
                       parties_involved |-> <<>>, damages_or_harm |-> <<>>,
                       prior_incidents |-> <<>>, evidence |-> <<>>],
     conversation_state |-> "greeting",
     user_ready_for_analysis |-> FALSE]

\* {"timestamp": ..., "speaker": "user", "message": user_input}
HistoryEntry(user_input) == [speaker |-> "user", message |-> user_input]

\* self.conversation_history.append(...)
Heard(m, user_input) ==
    [m EXCEPT !.conversation_history = Append(@, HistoryEntry(user_input))]

Returned(m, flag) == [m |-> m, raised |-> FALSE, flag |-> flag]

process_initial_issue(m, user_input) ==
    Returned(Heard([m EXCEPT !.case_details.initial_issue = user_input], user_input), TRUE)

process_timeline(m, user_input) ==
    Returned(Heard([m EXCEPT !.case_details.dates = Append(@, user_input)], user_input), TRUE)

process_parties(m, user_input) ==
    Returned(Heard([m EXCEPT !.case_details.parties_involved = Append(@, user_input)],
                   user_input), TRUE)

process_harm(m, user_input) ==
    Returned(Heard([m EXCEPT !.case_details.damages_or_harm = user_input], user_input), TRUE)

process_prior_incidents(m, user_input) ==
    Returned(Heard([m EXCEPT !.case_details.prior_incidents = user_input], user_input), TRUE)

\* the summary reads case_details['dates'][0] and ['parties_involved'][0]: IndexError on
\* an empty list, raised after the evidence and the history entry were appended and
\* before the state is set
process_evidence(m, user_input) ==
    LET heard == Heard([m EXCEPT !.case_details.evidence = Append(@, user_input)], user_input)
    IN  IF heard.case_details.dates = <<>> \/ heard.case_details.parties_involved = <<>>
        THEN [m |-> heard, raised |-> TRUE, flag |-> FALSE]
        ELSE Returned([heard EXCEPT !.conversation_state = "consent"], TRUE)

\* what the user can answer to the consent question
\* " Proceed ", "more", "change", "what"
Answers == {Text(<<" ", "P", "r", "o", "c", "e", "e", "d", " ">>),
            Text(<<"m", "o", "r", "e">>),
            Text(<<"c", "h", "a", "n", "g", "e">>), Text(<<"w", "h", "a", "t">>)}

\* user_input.lower().strip()
LowerStrip(user_input) == Strip(Lower(user_input))

\* ['yes', 'proceed', 'ok', 'okay', 'y']
ConsentWords == {Text(<<"y", "e", "s">>), Text(<<"p", "r", "o", "c", "e", "e", "d">>),
                 Text(<<"o", "k">>), Text(<<"o", "k", "a", "y">>), Text(<<"y">>)}

\* the three other branches differ in the response text only
process_consent(m, user_input) ==
    LET user_input_lower == LowerStrip(user_input)
        heard == Heard(m, user_input)
    IN  IF user_input_lower \in ConsentWords
        THEN Returned([heard EXCEPT !.user_ready_for_analysis = TRUE,
                                    !.conversation_state = "analysis"], TRUE)
        ELSE Returned(heard, FALSE)

\* reset_conversation that leaves the case details as they are
reset_conversation_keeping_details(m) ==
    [m |-> [NewManager EXCEPT !.case_details = m.case_details],
     raised |-> FALSE, flag |-> FALSE]

reset_conversation(m) == Returned(NewManager, FALSE)

\* the manager as it is
Manager ==
    [conversation_history |-> conversation_history, case_details |-> case_details,
     conversation_state |-> conversation_state,
     user_ready_for_analysis |-> user_ready_for_analysis]

\* a new ConversationManager
ManagerInit ==
    /\ conversation_history = NewManager.conversation_history
    /\ case_details = NewManager.case_details
    /\ conversation_state = NewManager.conversation_state
    /\ user_ready_for_analysis = NewManager.user_ready_for_analysis

(***************************************************************************)
(* Actions.                                                                *)
(***************************************************************************)
\* a new RAGPipeline on an empty data directory: VectorStore(), then HybridRetriever()
Init ==
    /\ store_type \in {"chroma", "faiss"}
    /\ faiss_importable \in BOOLEAN
    /\ store_type = "chroma" => faiss_importable
    /\ use_hybrid \in BOOLEAN
    /\ collection = <<>>
    /\ faiss_store = NoIndex
    /\ faiss_file = NoIndex
    /\ metadata_store = EmptyDict
    /\ metadata_file = AbsentFile
    /\ vectorizer = FALSE
    /\ tfidf_rows = <<>>
    /\ pc = "idle"
    /\ call = NoCall
    /\ added = <<>>
    /\ all_ok = TRUE
    /\ callers = [t \in Callers |-> IdleCaller]
    /\ ManagerInit

\* VectorStore.add_documents(documents, embeddings), the library calls failing as one
\* of faults says
AddDocumentsUnder(faults) ==
    /\ pc = "idle"
    /\ \E documents \in ChunkLists(MaxBatch), nembeddings \in 1..MaxBatch, fault \in faults :
        /\ DictLen(metadata_store) + Len(documents) <= MaxDocs
        /\ DictLen(metadata_file.data) + Len(documents) <= MaxDocs
        /\ VectorCount + Len(documents) <= MaxDocs
        /\ Len(added) + Len(documents) <= MaxDocs
        /\ Len(documents) # nembeddings => fault = "none"
        /\ store_type = "chroma" => BackendFault(fault) <= NumBatches(documents)
        /\ LET st == add_documents(StoreState, documents, nembeddings, fault)
           IN  /\ collection' = st.collection
               /\ faiss_store' = st.store
               /\ faiss_file' = st.index_file
               /\ metadata_store' = st.mem
               /\ metadata_file' = st.file
               /\ call' = [NoCall EXCEPT !.op = "add_documents", !.documents = documents,
                                         !.nembeddings = nembeddings, !.fault = fault,
                                         !.before = Contents(StoreState),
                                         !.saved = st.saved, !.returned = st.returned]
               /\ added' = IF st.returned THEN added \o documents ELSE added
               /\ all_ok' = (all_ok /\ st.returned /\ st.saved)
    /\ pc' = "returned"
    /\ UNCHANGED <<manager_vars, callers, store_type, faiss_importable, use_hybrid, vectorizer, tfidf_rows>>

\* add_documents while any of its library calls may raise
AddDocuments == AddDocumentsUnder(Faults)

\* add_documents while none of its library calls raises
AddDocumentsUndisturbed == AddDocumentsUnder({"none"})

\* the cleaned texts of the pages a PDF can have; extract_text_with_metadata leaves out
\* a page without text
PageTexts == {TextB, TextTheftRobbery}

\* SemanticChunker.chunk_text(text, metadata) for a page that has no section marker and
\* at most CHUNK_SIZE characters: no chunk for a blank text, else one chunk holding the
\* whole text, with chunk_id 0 (the numbering starts again on every page) and no
\* crime_types entry
chunk_text(text) ==
    IF \A i \in 1..Len(text) : text[i].c \in Whitespace THEN <<>>
    ELSE <<[text |-> text, chunk_id |-> 0, crime_types |-> NoValue,
            circular |-> FALSE, stringified |-> FALSE]>>

\* all_chunks of build_index before the metadata extraction, for the PDFs of at most n
\* pages with text: the chunks of every page, in page order; the empty list (a PDF
\* without text) is among them
RECURSIVE PdfChunkLists(_)
PdfChunkLists(n) ==
    IF n = 0 THEN {<<>>}
    ELSE PdfChunkLists(n - 1) \cup
         {all_chunks \o chunk_text(text) :
              all_chunks \in PdfChunkLists(n - 1), text \in PageTexts}

\* what build_index meets on its way: whether the size read of get_collection_size
\* raises (drawn where it changes what the call does: on an index that holds a chunk,
\* with force_rebuild False), and when the size test does not end the call, whether
\* the extraction raises, and if not the chunks, the crime types found in each and the
\* fault of add_documents (no library call of add_documents is reached with an empty
\* list on FAISS; on Chroma only those of _save_metadata are)
BuildEnv(force_rebuild) ==
    LET Indexing(count_raises) ==
            {[count_raises |-> count_raises, chunks |-> <<>>, crime_types |-> <<>>,
              extract_raises |-> TRUE, fault |-> "none"]}
            \cup UNION {{[count_raises |-> count_raises, chunks |-> c, crime_types |-> t,
                          extract_raises |-> FALSE, fault |-> f] :
                             t \in CrimeTypeLists(c), f \in Faults} :
                           c \in PdfChunkLists(MaxBatch) \ {<<>>}}
            \cup {[count_raises |-> count_raises, chunks |-> <<>>, crime_types |-> <<>>,
                   extract_raises |-> FALSE, fault |-> f] :
                     f \in IF store_type = "chroma" THEN {"none", "open", "write"}
                           ELSE {"none"}}
    IN  IF get_collection_size(StoreState, FALSE) > 0 /\ ~force_rebuild
        THEN {[count_raises |-> FALSE, chunks |-> <<>>, crime_types |-> <<>>,
               extract_raises |-> FALSE, fault |-> "none"]}
             \cup Indexing(TRUE)
        ELSE Indexing(FALSE)

\* RAGPipeline.build_index(force_rebuild)
BuildIndex ==
    /\ pc = "idle"
    /\ \E force_rebuild \in BOOLEAN :
        \E env \in BuildEnv(force_rebuild) :
        LET chunks == env.chunks
            built == build_index(StoreState, force_rebuild, env.count_raises, chunks,
                                 env.crime_types, env.extract_raises, env.fault)
            all_chunks == BuiltChunks(chunks, env.crime_types)
            st == built.st
        IN  /\ built.add_called =>
                  /\ DictLen(metadata_store) + Len(chunks) <= MaxDocs
                  /\ DictLen(metadata_file.data) + Len(chunks) <= MaxDocs
                  /\ VectorCount + Len(chunks) <= MaxDocs
                  /\ Len(added) + Len(chunks) <= MaxDocs
                  /\ store_type = "chroma" => BackendFault(env.fault) <= NumBatches(chunks)
            /\ collection' = st.collection
            /\ faiss_store' = st.store
            /\ faiss_file' = st.index_file
            /\ metadata_store' = st.mem
            /\ metadata_file' = st.file
            /\ call' = [NoCall EXCEPT !.op = "build_index", !.force_rebuild = force_rebuild,
                                      !.extracted = built.extracted,
                                      !.documents = IF built.add_called THEN all_chunks
                                                   ELSE <<>>,
                                      !.before = Contents(StoreState),
                                      !.fault = env.fault,
                                      !.add_called = built.add_called,
                                      !.add_returned = built.add_called /\ st.returned,
                                      !.returned = built.returned]
            /\ added' = IF built.add_called /\ st.returned
                         THEN added \o all_chunks
                         ELSE added
            /\ all_ok' = (all_ok /\ (built.add_called => (st.returned /\ st.saved)))
    /\ pc' = "returned"
    /\ UNCHANGED <<manager_vars, callers, store_type, faiss_importable, use_hybrid, vectorizer, tfidf_rows>>

\* HybridRetriever(embedding_gen, vector_store) on the live store
NewRetriever ==
    /\ pc = "idle"
    /\ \E fit_raises \in BOOLEAN :
        LET built == _build_bm25_index(metadata_store, fit_raises)
        IN  /\ vectorizer' = built.vectorizer
            /\ tfidf_rows' = built.tfidf_rows
    /\ UNCHANGED <<manager_vars, callers, store_type, faiss_importable, use_hybrid, collection, faiss_store, faiss_file,
                   metadata_store, metadata_file, pc, call, added, all_ok>>

\* RAGPipeline.__init__ in a new process over the same data directory:
\* VectorStore() initializes the backend and reads the index and the metadata file,
\* then HybridRetriever() is built.  When VectorStore() raises, no pipeline is made and
\* the running one stays as it is.
NewPipeline ==
    /\ pc = "idle"
    /\ \E fit_raises \in BOOLEAN, env \in InitEnv(store_type, faiss_importable) :
        LET init == _initialize_store(store_type, faiss_importable, env.primary_raises,
                                      env.fallback_raises)
            loaded == LoadMetadata(metadata_file)
            built == _build_bm25_index(loaded, fit_raises)
        IN  /\ call' = [NoCall EXCEPT !.op = "new_pipeline", !.raised = init.raised,
                                      !.primary_failed = init.primary_failed,
                                      !.fallback_failed = init.fallback_failed]
            /\ IF init.raised
               THEN UNCHANGED <<metadata_store, faiss_store, vectorizer, tfidf_rows>>
               ELSE /\ metadata_store' = loaded
                    /\ faiss_store' = faiss_file
                    /\ vectorizer' = built.vectorizer
                    /\ tfidf_rows' = built.tfidf_rows
    /\ pc' = "returned"
    /\ UNCHANGED <<manager_vars, callers, store_type, faiss_importable, use_hybrid, collection, faiss_file,
                   metadata_file, added, all_ok>>

\* what the vector index can report for n requested neighbours
DenseEnv(emb, n, filter_dict) ==
    LET sims == IF store_type = "faiss" THEN {FaissSims}
                ELSE IF emb = "zero" THEN ZeroVectorSims ELSE {DenseSims}
        pos == IF store_type = "chroma" THEN MatchingPositions(collection, filter_dict)
               ELSE 0..(Len(faiss_store.vecs) - 1)
    IN  IF store_type = "faiss" /\ ~faiss_importable
        THEN \* "import faiss" in _search_faiss raises ImportError
             {[hits |-> <<>>, index_raises |-> TRUE]}
        ELSE {[hits |-> h, index_raises |-> FALSE] :
                 h \in UNION {RankedLists(pos, Min(n, Cardinality(pos)), ss) : ss \in sims}}
             \cup {[hits |-> <<>>, index_raises |-> TRUE]}

\* the row indices idx..n-1 that are not in taken, in index order, each with score 0
RECURSIVE ZeroRows(_, _, _)
ZeroRows(idx, n, taken) ==
    IF idx >= n THEN <<>>
    ELSE IF idx \in taken THEN ZeroRows(idx + 1, n, taken)
    ELSE <<[idx |-> idx, score |-> 0]>> \o ZeroRows(idx + 1, n, taken)

\* np.argsort(-scores) with the scores, for every score vector over n rows: the rows
\* with a positive score first, best first and in any order among equal scores, then
\* the rows with score 0 (which _sparse_search skips, whatever their order)
ArgsortOutcomes(n, scores) ==
    LET rows == 0..(n - 1)
        positive == scores \ {0}
    IN  {r \o ZeroRows(0, n, {r[i].idx : i \in 1..Len(r)}) :
            r \in UNION {RankedLists(rows, m, positive) : m \in 0..n}}

\* what the TF-IDF product can be: one score per row, all zero for a query without a
\* word
SparseEnv(query) ==
    IF ~use_hybrid \/ ~vectorizer
    THEN {[ranked |-> <<>>, transform_raises |-> FALSE]}
    ELSE {[ranked |-> r, transform_raises |-> FALSE] :
            r \in ArgsortOutcomes(Len(tfidf_rows),
                                 IF IsBlank(query) THEN {0} ELSE SparseScores)}
         \cup {[ranked |-> <<>>, transform_raises |-> TRUE]}

\* HybridRetriever.retrieve(query, k, filters).  k is one of 0..MaxK, and in hybrid
\* mode, for a query with words and no filter, also the first count whose double is
\* above RETRIEVAL_K_MAX
Retrieve ==
    /\ pc = "idle"
    /\ \E query \in Queries, filters \in Filters :
         \E k \in (0..MaxK) \cup (IF use_hybrid /\ ~IsBlank(query) /\ filters = NoFilter
                                  THEN {RETRIEVAL_K_MAX \div 2 + 1} ELSE {}),
            encode_raises \in (IF IsBlank(query) THEN {FALSE} ELSE BOOLEAN) :
           LET n == FetchCount(k, use_hybrid)
               emb == embed_text(query, encode_raises)
           IN  \E de \in DenseEnv(emb, n, filters), se \in SparseEnv(query) :
                 LET found == search(store_type, collection, faiss_store, metadata_store,
                                     de.hits, de.index_raises)
                     dense == _dense_search(found)
                     sparse == IF use_hybrid
                               THEN _sparse_search(vectorizer, metadata_store, se.ranked, n,
                                                   se.transform_raises)
                               ELSE Return(<<>>)
                     out == retrieve(use_hybrid, k, dense, sparse)
                 IN  call' = [NoCall EXCEPT !.op = "retrieve", !.query = query, !.k = k,
                                            !.filters = filters, !.fetch = n,
                                            !.sparse_fetch = IF use_hybrid THEN n ELSE 0,
                                            !.ranked = se.ranked,
                                            !.found = found.val,
                                            !.dense = dense.val, !.sparse = sparse.val,
                                            !.sparse_ran = use_hybrid,
                                            !.encode_raised = encode_raises,
                                            !.dense_failed = de.index_raises,
                                            !.sparse_failed = se.transform_raises,
                                            !.result = out.val, !.raised = out.exc]
    /\ pc' = "returned"
    /\ UNCHANGED <<manager_vars, callers, store_type, faiss_importable, use_hybrid, collection, faiss_store, faiss_file,
                   metadata_store, metadata_file, vectorizer, tfidf_rows, added, all_ok>>

\* RAGPipeline.answer_query(query): the retrieval is reached only when the processed
\* query has its "cleaned" entry
AnswerQuery ==
    /\ pc = "idle"
    /\ \E query \in RawQueries :
         \E encode_raises \in (IF IsBlank(query) THEN {FALSE} ELSE BOOLEAN) :
           LET processed_query == process_query(query)
               cleaned == processed_query.cleaned
               n == FetchCount(RETRIEVAL_K, use_hybrid)
           IN  \E de \in (IF processed_query.has_cleaned
                           THEN DenseEnv(embed_text(cleaned, encode_raises), n, NoFilter)
                           ELSE {[hits |-> <<>>, index_raises |-> FALSE]}),
                  se \in (IF processed_query.has_cleaned THEN SparseEnv(cleaned)
                           ELSE {[ranked |-> <<>>, transform_raises |-> FALSE]}),
                  llm_ok \in (IF processed_query.has_cleaned THEN BOOLEAN ELSE {TRUE}) :
                 LET found == search(store_type, collection, faiss_store, metadata_store,
                                     de.hits, de.index_raises)
                     dense == _dense_search(found)
                     sparse == IF use_hybrid
                               THEN _sparse_search(vectorizer, metadata_store, se.ranked, n,
                                                   se.transform_raises)
                               ELSE Return(<<>>)
                     retrieved == retrieve(use_hybrid, RETRIEVAL_K, dense, sparse)
                     result == answer_query(processed_query, retrieved, llm_ok)
                 IN  call' = [NoCall EXCEPT !.op = "answer_query", !.query = query,
                                            !.status = result.status,
                                            !.ndocs = result.retrieved_docs_count]
    /\ pc' = "returned"
    /\ UNCHANGED <<manager_vars, callers, store_type, faiss_importable, use_hybrid, collection, faiss_store, faiss_file,
                   metadata_store, metadata_file, vectorizer, tfidf_rows, added, all_ok>>

\* the caller takes the returned value
ReturnToCaller ==
    /\ pc = "returned"
    /\ pc' = "idle"
    /\ call' = NoCall
    /\ UNCHANGED <<manager_vars, callers, store_type, faiss_importable, use_hybrid, collection, faiss_store, faiss_file,
                   metadata_store, metadata_file, vectorizer, tfidf_rows, added, all_ok>>

(***************************************************************************)
(* HybridRetriever._sparse_search called by itself, on a retriever built   *)
(* over a store that one add_documents call has filled.                    *)
(***************************************************************************)
\* TF-IDF dot products (tenths) with two different positive values
SparseScoresWide == {0, 3, 6}

\* a new Chroma store on an empty directory
NewStore ==
    [store_type |-> "chroma", importable |-> TRUE, collection |-> <<>>, store |-> NoIndex,
     index_file |-> NoIndex, mem |-> EmptyDict, file |-> AbsentFile,
     returned |-> FALSE, saved |-> FALSE]

\* VectorStore() on an empty directory, then either no call of add_documents or one
\* add_documents(documents, embeddings) with no library call failing (for the empty
\* list it adds nothing and writes the metadata file), then HybridRetriever()
SparseInit ==
    /\ store_type = "chroma"
    /\ faiss_importable = TRUE
    /\ use_hybrid = TRUE
    /\ faiss_store = NoIndex
    /\ faiss_file = NoIndex
    /\ pc = "idle"
    /\ call = NoCall
    /\ callers = [t \in Callers |-> IdleCaller]
    /\ ManagerInit
    /\ \E documents \in ChunkLists(MaxRows) \cup {<<>>}, add_called \in BOOLEAN :
           LET st == IF add_called
                     THEN add_documents(NewStore, documents, Len(documents), "none")
                     ELSE NewStore
               built == _build_bm25_index(st.mem, FALSE)
           IN  /\ collection = st.collection
               /\ metadata_store = st.mem
               /\ metadata_file = st.file
               /\ vectorizer = built.vectorizer
               /\ tfidf_rows = built.tfidf_rows
               /\ documents # <<>> => add_called
               /\ added = documents
               /\ all_ok = (add_called => st.saved)

\* what the TF-IDF product can be when _sparse_search is reached
SparseSearchEnv(query) ==
    IF ~vectorizer
    THEN {[ranked |-> <<>>, transform_raises |-> FALSE]}
    ELSE {[ranked |-> r, transform_raises |-> FALSE] :
            r \in ArgsortOutcomes(Len(tfidf_rows),
                                  IF IsBlank(query) THEN {0} ELSE SparseScoresWide)}
         \cup {[ranked |-> <<>>, transform_raises |-> TRUE]}

\* HybridRetriever._sparse_search(query, k)
SparseSearch ==
    /\ pc = "idle"
    /\ \E query \in Queries, k \in 0..MaxK :
           \E se \in SparseSearchEnv(query) :
               LET out == _sparse_search(vectorizer, metadata_store, se.ranked, k,
                                         se.transform_raises)
               IN  call' = [NoCall EXCEPT !.op = "sparse_search", !.query = query, !.k = k,
                                          !.sparse_fetch = k, !.ranked = se.ranked,
                                          !.sparse = out.val, !.sparse_ran = TRUE,
                                          !.sparse_failed = se.transform_raises,
                                          !.result = out.val, !.raised = out.exc]
    /\ pc' = "returned"
    /\ UNCHANGED <<manager_vars, callers, store_type, faiss_importable, use_hybrid, collection, faiss_store,
                   faiss_file, metadata_store, metadata_file, vectorizer, tfidf_rows, added,
                   all_ok>>

(***************************************************************************)
(* Concurrent retrieve calls.  A call is a sequence of steps, one per      *)
(* sub-search and one for the fusion; between two steps of a caller the    *)
(* other caller may take any of its own.  Every step works on the index    *)
(* state of the moment it runs.                                            *)
(***************************************************************************)
\* the index state retrieve reads: the attributes of the VectorStore and of the
\* HybridRetriever
SharedIndex ==
    [store_type |-> store_type, collection |-> collection, store |-> faiss_store,
     mem |-> metadata_store, vectorizer |-> vectorizer, tfidf_rows |-> tfidf_rows]

\* the query of the concurrent calls
ConcQuery == Text(<<"r", "o", "b", "b", "e", "r", "y", " ",
                    "p", "u", "n", "i", "s", "h", "m", "e", "n", "t">>)

\* what the vector index reports for ConcQuery and n neighbours: the stored vectors in
\* index order, each as near as an ordinary query finds one (collection.query of
\* _search_chroma, store.search of _search_faiss)
IndexReport(sh, n) ==
    IF sh.store_type = "chroma"
    THEN [hits |-> [i \in 1..Min(n, Len(sh.collection)) |-> [idx |-> i, score |-> 3]],
          index_raises |-> FALSE]
    ELSE IF ~faiss_importable THEN [hits |-> <<>>, index_raises |-> TRUE]
    ELSE [hits |-> [i \in 1..Min(n, Len(sh.store.vecs)) |-> [idx |-> i - 1, score |-> 5]],
          index_raises |-> FALSE]

\* np.argsort(-scores) for ConcQuery: every row of the matrix, in row order, with the
\* same positive product
TfidfReport(sh) ==
    [i \in 1..Len(sh.tfidf_rows) |-> [idx |-> i - 1, score |-> 3]]

\* _dense_search(query, n, filters) on the index state sh: the value it returns and
\* the index state it leaves.  Neither _dense_search nor VectorStore.search,
\* _search_chroma, _search_faiss assigns an attribute.
DenseStep(sh, n) ==
    LET rep == IndexReport(sh, n)
        found == search(sh.store_type, sh.collection, sh.store, sh.mem, rep.hits,
                        rep.index_raises)
    IN  [shared |-> sh, out |-> _dense_search(found)]

\* a sparse search that fits the vectorizer again on the metadata store before it
\* scores the rows
SparseStep_refitting(sh, n) ==
    LET built == _build_bm25_index(sh.mem, FALSE)
        fresh == [sh EXCEPT !.vectorizer = built.vectorizer, !.tfidf_rows = built.tfidf_rows]
    IN  [shared |-> fresh,
         out |-> _sparse_search(fresh.vectorizer, fresh.mem, TfidfReport(fresh), n, FALSE)]

\* _sparse_search(query, n) on the index state sh: the value it returns and the index
\* state it leaves.  It reads vectorizer, tfidf_matrix and metadata_store and assigns
\* none of them.
SparseStep(sh, n) ==
    [shared |-> sh,
     out |-> _sparse_search(sh.vectorizer, sh.mem, TfidfReport(sh), n, FALSE)]

\* retrieve(ConcQuery, k) run from start to end on the index state sh with no other
\* call in between
RetrieveAlone(sh, hybrid, k) ==
    LET n == FetchCount(k, hybrid)
        dense == DenseStep(sh, n)
        sparse == IF hybrid THEN SparseStep(dense.shared, n).out ELSE Return(<<>>)
    IN  retrieve(hybrid, k, dense.out, sparse)

\* some caller other than t is between the first and the last step of its call
OtherInCall(t) ==
    \E u \in Callers \ {t} : callers[u].pc \in {"dense", "sparse", "fuse"}

\* no caller is inside retrieve
Quiescent == \A t \in Callers : callers[t].pc = "idle"

\* the index state sh becomes the state of the store and of the retriever
SetShared(sh) ==
    /\ collection' = sh.collection
    /\ faiss_store' = sh.store
    /\ metadata_store' = sh.mem
    /\ vectorizer' = sh.vectorizer
    /\ tfidf_rows' = sh.tfidf_rows

\* caller t enters retrieve(ConcQuery, k): k = k or settings.RETRIEVAL_K, and the
\* over-fetch count in hybrid mode
CallerStart(t) ==
    /\ pc = "idle"
    /\ callers[t].pc = "idle"
    /\ \E k \in 1..MaxK :
           callers' = [callers EXCEPT ![t] =
                          [IdleCaller EXCEPT !.pc = "dense", !.k = k,
                                             !.n = FetchCount(k, use_hybrid),
                                             !.before = SharedIndex,
                                             !.overlapped = OtherInCall(t)]]
    /\ UNCHANGED <<manager_vars, store_type, faiss_importable, use_hybrid, collection, faiss_store,
                   faiss_file, metadata_store, metadata_file, vectorizer, tfidf_rows, pc,
                   call, added, all_ok>>

\* caller t runs its dense search
CallerDense(t) ==
    /\ callers[t].pc = "dense"
    /\ LET step == DenseStep(SharedIndex, callers[t].n)
       IN  /\ callers' = [callers EXCEPT ![t].dense = step.out.val,
                                         ![t].raised = step.out.exc,
                                         ![t].pc = IF use_hybrid THEN "sparse" ELSE "fuse",
                                         ![t].overlapped = @ \/ OtherInCall(t)]
           /\ SetShared(step.shared)
    /\ UNCHANGED <<manager_vars, store_type, faiss_importable, use_hybrid, faiss_file, metadata_file, pc,
                   call, added, all_ok>>

\* caller t runs its sparse search (hybrid mode)
CallerSparse(t) ==
    /\ callers[t].pc = "sparse"
    /\ LET step == SparseStep(SharedIndex, callers[t].n)
       IN  /\ callers' = [callers EXCEPT ![t].sparse = step.out.val,
                                         ![t].raised = @ \/ step.out.exc,
                                         ![t].pc = "fuse",
                                         ![t].overlapped = @ \/ OtherInCall(t)]
           /\ SetShared(step.shared)
    /\ UNCHANGED <<manager_vars, store_type, faiss_importable, use_hybrid, faiss_file, metadata_file, pc,
                   call, added, all_ok>>

\* caller t fuses its two lists (or returns the dense list) and returns
CallerFuse(t) ==
    /\ callers[t].pc = "fuse"
    /\ LET out == retrieve(use_hybrid, callers[t].k, Return(callers[t].dense),
                           Return(callers[t].sparse))
       IN  callers' = [callers EXCEPT ![t].result = out.val,
                                      ![t].raised = @ \/ out.exc,
                                      ![t].pc = "done",
                                      ![t].overlapped = @ \/ OtherInCall(t)]
    /\ UNCHANGED <<manager_vars, store_type, faiss_importable, use_hybrid, collection, faiss_store,
                   faiss_file, metadata_store, metadata_file, vectorizer, tfidf_rows, pc,
                   call, added, all_ok>>

\* caller t has taken the result
CallerDone(t) ==
    /\ callers[t].pc = "done"
    /\ callers' = [callers EXCEPT ![t] = IdleCaller]
    /\ UNCHANGED <<manager_vars, store_type, faiss_importable, use_hybrid, collection, faiss_store,
                   faiss_file, metadata_store, metadata_file, vectorizer, tfidf_rows, pc,
                   call, added, all_ok>>

\* Retrieval over every store the pipeline can fill: the library calls of retrieve may
\* raise, those of add_documents do not.
Next ==
    \/ AddDocumentsUndisturbed
    \/ NewRetriever
    \/ NewPipeline
    \/ Retrieve
    \/ AnswerQuery
    \/ ReturnToCaller

Spec == Init /\ [][Next]_vars

\* The store and the index build, while any library call of add_documents, of the
\* metadata save and of the backend initialization may raise.
StoreNext ==
    \/ AddDocuments
    \/ BuildIndex
    \/ NewPipeline
    \/ ReturnToCaller

StoreSpec == Init /\ [][StoreNext]_vars

\* The store filled by add_documents alone, under the same faults.
AddNext ==
    \/ AddDocuments
    \/ NewPipeline
    \/ ReturnToCaller

AddSpec == Init /\ [][AddNext]_vars

\* Two callers inside retrieve at the same time, on every store the pipeline can fill;
\* the store is filled and the retriever built while no call is running.
ConcNext ==
    \/ (Quiescent /\ AddDocumentsUndisturbed)
    \/ (Quiescent /\ NewRetriever)
    \/ ReturnToCaller
    \/ \E t \in Callers :
           CallerStart(t) \/ CallerDense(t) \/ CallerSparse(t) \/ CallerFuse(t) \/ CallerDone(t)

ConcSpec == Init /\ [][ConcNext]_vars

(***************************************************************************)
(* The calls of a ConversationManager, in any order.                       *)
(***************************************************************************)
\* largest number of entries of conversation_history
MaxHistory == 4

\* what the user types as a description
\* "theft"
Texts == {Text(<<"t", "h", "e", "f", "t">>)}

\* the manager after the call becomes the manager; the call is recorded with the
\* manager before it
ManagerCall(op, user_input, r) ==
    /\ pc = "idle"
    /\ conversation_history' = r.m.conversation_history
    /\ case_details' = r.m.case_details
    /\ conversation_state' = r.m.conversation_state
    /\ user_ready_for_analysis' = r.m.user_ready_for_analysis
    /\ call' = [NoCall EXCEPT !.op = op, !.query = user_input, !.before = Manager,
                              !.raised = r.raised, !.returned = r.flag]
    /\ pc' = "returned"
    /\ UNCHANGED <<callers, store_type, faiss_importable, use_hybrid, collection, faiss_store,
                   faiss_file, metadata_store, metadata_file, vectorizer, tfidf_rows, added,
                   all_ok>>

ProcessInitialIssue ==
    /\ Len(conversation_history) < MaxHistory
    /\ \E user_input \in Texts :
           ManagerCall("process_initial_issue", user_input,
                       process_initial_issue(Manager, user_input))

ProcessTimeline ==
    /\ Len(conversation_history) < MaxHistory
    /\ \E user_input \in Texts :
           ManagerCall("process_timeline", user_input, process_timeline(Manager, user_input))

ProcessParties ==
    /\ Len(conversation_history) < MaxHistory
    /\ \E user_input \in Texts :
           ManagerCall("process_parties", user_input, process_parties(Manager, user_input))

ProcessHarm ==
    /\ Len(conversation_history) < MaxHistory
    /\ \E user_input \in Texts :
           ManagerCall("process_harm", user_input, process_harm(Manager, user_input))

ProcessPriorIncidents ==
    /\ Len(conversation_history) < MaxHistory
    /\ \E user_input \in Texts :
           ManagerCall("process_prior_incidents", user_input,
                       process_prior_incidents(Manager, user_input))

ProcessEvidence ==
    /\ Len(conversation_history) < MaxHistory
    /\ \E user_input \in Texts :
           ManagerCall("process_evidence", user_input, process_evidence(Manager, user_input))

ProcessConsent ==
    /\ Len(conversation_history) < MaxHistory
    /\ \E user_input \in Answers :
           ManagerCall("process_consent", user_input, process_consent(Manager, user_input))

ResetConversation ==
    ManagerCall("reset_conversation", <<>>, reset_conversation(Manager))

\* the process_* methods
ProcessOps ==
    {"process_initial_issue", "process_timeline", "process_parties", "process_harm",
     "process_prior_incidents", "process_evidence", "process_consent"}

\* One ConversationManager, its methods called in any order with any input.
ConvNext ==
    \/ ProcessInitialIssue
    \/ ProcessTimeline
    \/ ProcessParties
    \/ ProcessHarm
    \/ ProcessPriorIncidents
    \/ ProcessEvidence
    \/ ProcessConsent
    \/ ResetConversation
    \/ ReturnToCaller

ConvInit == Init /\ store_type = "chroma" /\ use_hybrid

ConvSpec == ConvInit /\ [][ConvNext]_vars

\* The sparse search by itself, for every k and every score vector.
SparseNext ==
    \/ SparseSearch
    \/ ReturnToCaller

SparseSpec == SparseInit /\ [][SparseNext]_vars

\* A store that only build_index writes: every build is over the chunks of the one PDF.
BuildNext ==
    \/ BuildIndex
    \/ NewPipeline
    \/ ReturnToCaller

BuildSpec == Init /\ [][BuildNext]_vars

(***************************************************************************)
(* Vocabulary of the properties.                                           *)
(***************************************************************************)
Retrieved == call.op = "retrieve"
HybridRetrieved == Retrieved /\ call.sparse_ran
Candidates == call.dense \o call.sparse

\* the same chunk, whether read from the metadata store or returned by Chroma
SameChunk(d1, d2) == ChromaRecord(d1) = ChromaRecord(d2)

\* sum of score/(60 + rank) over the places of results that hold the chunk doc
RECURSIVE Contribution(_, _, _)
Contribution(results, doc, rank) ==
    IF rank >= Len(results) THEN 0
    ELSE (IF SameChunk(results[rank + 1].doc, doc)
          THEN (FusionDen \div (60 + rank)) * results[rank + 1].score ELSE 0)
         + Contribution(results, doc, rank + 1)

\* a document no chunk shares a key with
Placeholder == [text |-> <<Run(35, 1)>>, chunk_id |-> 0, crime_types |-> StrValue(""),
                circular |-> FALSE, stringified |-> FALSE]
\* results with the chunk at place i taken out, every other chunk keeping its rank
Without(results, i) == [results EXCEPT ![i] = [doc |-> Placeholder, score |-> 0]]

\* the first place of Candidates that holds doc
FirstPlace(doc) == CHOOSE i \in 1..Len(Candidates) :
                       /\ Candidates[i].doc = doc
                       /\ \A j \in 1..(i - 1) : Candidates[j].doc # doc

\* C1: retrieve(q, k, filters) returns at most k results, for every k >= 0 (stated
\* here for the non-empty queries).
\* Violated for k = 0: "k or settings.RETRIEVAL_K" turns 0 into 5.
C1_AtMostK == (Retrieved /\ ~IsBlank(call.query)) => Len(call.result) <= call.k

\* C2: retrieve never raises; a sub-search in which a call raised (model.encode of
\* the embedding or the index search in the dense search, vectorizer.transform in the
\* sparse search) contributes the empty list, fusion runs on the two lists, and the
\* result is empty when both failed.
\* Violated: a raising model.encode is caught inside embed_text, which returns the zero
\* vector; the dense search goes on with it and returns what the index gives for it.
C2_NeverRaises ==
    Retrieved =>
        LET dense_failed == call.encode_raised \/ call.dense_failed
        IN  /\ ~call.raised
            /\ dense_failed => call.dense = <<>>
            /\ call.sparse_failed => call.sparse = <<>>
            /\ call.sparse_ran =>
                   call.result = _aggregate_results(call.dense, call.sparse,
                                                    EffectiveK(call.k))
            /\ ~call.sparse_ran => call.result = call.dense
            /\ (dense_failed /\ (call.sparse_failed \/ ~call.sparse_ran)) =>
                   call.result = <<>>

\* C3: the fused score returned for a chunk is the sum, over the lists that hold the
\* chunk, of native_score / (60 + rank) (stated here for the non-empty queries).
\* Violated when another chunk shares the key.
C3_ScoreIsOwnSum ==
    (HybridRetrieved /\ ~IsBlank(call.query)) =>
        \A i \in 1..Len(call.result) :
            call.result[i].score = Contribution(call.dense, call.result[i].doc, 0)
                                   + Contribution(call.sparse, call.result[i].doc, 0)

\* C4: a chunk in both candidate lists has a strictly higher fused score than it would
\* have with its entry in either one of the lists taken out.
C4_Monotone ==
    HybridRetrieved =>
        \A i \in 1..Len(call.dense), j \in 1..Len(call.sparse) :
            SameChunk(call.dense[i].doc, call.sparse[j].doc) =>
                LET key == doc_key(call.dense[i].doc)
                    both == DictGet(ResultScores(call.dense, call.sparse), key)
                    only_dense == DictGet(ResultScores(call.dense, Without(call.sparse, j)), key)
                    only_sparse == DictGet(ResultScores(Without(call.dense, i), call.sparse), key)
                IN  both > only_dense /\ both > only_sparse

\* C4 witness: a hybrid retrieve whose dense and sparse lists share a chunk.
C4_Witness ==
    HybridRetrieved
    /\ \E i \in 1..Len(call.dense), j \in 1..Len(call.sparse) :
           SameChunk(call.dense[i].doc, call.sparse[j].doc)

\* C5: fusion keeps one entry per distinct chunk of the candidate lists (stated here
\* for the non-empty queries).
\* Violated by two chunks whose texts agree on the first 100 characters.
C5_OneEntryPerChunk ==
    (HybridRetrieved /\ ~IsBlank(call.query)) =>
        Len(ResultScores(call.dense, call.sparse))
            = Cardinality({ChromaRecord(Candidates[i].doc) : i \in 1..Len(Candidates)})

\* C6: the result is ordered by score descending, and in hybrid mode results of equal
\* score are in the order of their first place in dense + sparse.
C6_Ordered ==
    Retrieved =>
        \A i, j \in 1..Len(call.result) :
            i < j =>
                /\ call.result[i].score >= call.result[j].score
                /\ (call.sparse_ran /\ call.result[i].score = call.result[j].score) =>
                       FirstPlace(call.result[i].doc) < FirstPlace(call.result[j].doc)

\* C6 witness: a fused result with two entries of equal score.
C6_Witness ==
    HybridRetrieved
    /\ \E i, j \in 1..Len(call.result) :
           i < j /\ call.result[i].score = call.result[j].score

\* C7: the dense search returns exactly the results of the index search whose
\* similarity is at least the threshold, in the index's order; dense-only retrieve
\* returns that list.
C7_Threshold ==
    Retrieved =>
        LET Reaches(r) == r.score >= SIMILARITY_THRESHOLD
        IN  /\ \A i \in 1..Len(call.dense) : Reaches(call.dense[i])
            /\ call.dense = SelectSeq(call.found, Reaches)
            /\ ~call.sparse_ran => call.result = call.dense

\* C7 witness: dense-only retrieve where the index reported a result below the
\* threshold and one that reaches it.
C7_Witness ==
    /\ Retrieved /\ ~call.sparse_ran
    /\ \E i, j \in 1..Len(call.found) :
           /\ call.found[i].score < SIMILARITY_THRESHOLD
           /\ call.found[j].score >= SIMILARITY_THRESHOLD
    /\ call.result # <<>>

\* the metadata store holds exactly the chunks of added, the i-th under key str(i)
OrdinalAligned ==
    /\ DictLen(metadata_store) = Len(added)
    /\ DictKeys(metadata_store) = {Str(i) : i \in 0..(Len(added) - 1)}
    /\ \A i \in 0..(Len(added) - 1) :
           /\ metadata_store[i + 1].k = Str(i)
           /\ metadata_store[i + 1].v = added[i + 1]

\* C8: after successful add_documents calls from an empty store, the i-th chunk added
\* is the entry with key str(i) at position i, and the keys are "0" .. "n-1".  Stated
\* call by call: an add_documents call that returns True on a metadata store whose
\* keys are "0" .. "n-1" leaves the entries it found, followed by its documents in
\* order, under the keys "0" .. "n+m-1".
\* Violated: add_documents returns True also when _save_metadata failed, and then the
\* documents of the call are not in the metadata store (C22).
C8_OrdinalAlignment ==
    LET Ordinal(d) == \A i \in 1..DictLen(d) : d[i].k = Str(i - 1)
    IN  (/\ \/ call.op = "add_documents" /\ call.returned
            \/ call.op = "build_index" /\ call.add_returned
         /\ Ordinal(call.before.mem)) =>
            /\ Ordinal(metadata_store)
            /\ DictValues(metadata_store) = DictValues(call.before.mem) \o call.documents

\* the chunk the vector backend holds under ordinal j (Chroma: the record with id
\* <collection>_j, FAISS: the j-th vector) is the chunk at position j of the metadata store
VectorAligned ==
    /\ VectorCount = DictLen(metadata_store)
    /\ IF store_type = "chroma"
       THEN \A i \in 1..Len(collection) :
                /\ DictHas(metadata_store, Str(collection[i].id))
                /\ collection[i].doc = ChromaRecord(DictGet(metadata_store, Str(collection[i].id)))
       ELSE \A j \in 1..Len(faiss_store.vecs) :
                /\ DictHas(metadata_store, Str(j - 1))
                /\ faiss_store.vecs[j] = DictGet(metadata_store, Str(j - 1))

\* C9: after any sequence of add_documents calls the vector index and the metadata
\* store hold the same chunks at the same ordinals.  Stated here for the calls that
\* returned True with the metadata saved; violated on Chroma by a second call, whose
\* ids start again at 0.
C9_VectorAligned == all_ok => VectorAligned

\* C10: whenever retrieve runs the sparse search, the TF-IDF matrix has one row per
\* entry of the metadata store, row i built from the text of entry i.  Violated when
\* chunks were added after the retriever was constructed.
C10_SparseCoversCorpus ==
    (all_ok /\ HybridRetrieved) => tfidf_rows = StoreTexts(metadata_store)

\* C11: add_documents called with a different number of documents and embeddings
\* returns False and leaves the vector index, the in-memory metadata store and the
\* metadata file as they were.
C11_MismatchRejected ==
    (call.op = "add_documents" /\ Len(call.documents) # call.nembeddings) =>
        /\ ~call.returned
        /\ Contents(StoreState) = call.before

\* C11 witness: a mismatched call on a store that already holds a chunk.
C11_Witness ==
    /\ call.op = "add_documents" /\ Len(call.documents) # call.nembeddings
    /\ DictLen(metadata_store) > 0 /\ VectorCount > 0

\* VectorAligned for the contents c of a store of type stype
AlignedIn(stype, c) ==
    /\ (IF stype = "chroma" THEN Len(c.collection) ELSE Len(c.store.vecs)) = DictLen(c.mem)
    /\ IF stype = "chroma"
       THEN \A i \in 1..Len(c.collection) :
                /\ DictHas(c.mem, Str(c.collection[i].id))
                /\ c.collection[i].doc = ChromaRecord(DictGet(c.mem, Str(c.collection[i].id)))
       ELSE \A j \in 1..Len(c.store.vecs) :
                /\ DictHas(c.mem, Str(j - 1))
                /\ c.store.vecs[j] = DictGet(c.mem, Str(j - 1))

\* C12: an add_documents call in which a backend insertion or the metadata save raised
\* leaves the vector index and the metadata store aligned, if they were before it.
\* Violated on FAISS when faiss.write_index raises after store.add: the vectors stay
\* in the index and no metadata is stored.
C12_FailedBatchAligned ==
    (call.op = "add_documents" /\ call.fault # "none" /\ AlignedIn(store_type, call.before)) =>
        AlignedIn(store_type, Contents(StoreState))

\* C13: build_index(force_rebuild=False) on a vector index that holds at least one
\* chunk returns True without extracting or adding anything: the index, the metadata
\* store and the files are as before the call.
\* Violated: when the size read raises, get_collection_size returns 0 and the call
\* indexes the PDF again.
C13_IdempotentRebuild ==
    (/\ call.op = "build_index" /\ ~call.force_rebuild
     /\ (IF store_type = "chroma" THEN Len(call.before.collection)
         ELSE Len(call.before.store.vecs)) > 0) =>
        /\ call.returned
        /\ ~call.extracted
        /\ Contents(StoreState) = call.before

\* no chunk has got into the vector index, the metadata store or the TF-IDF matrix
EmptyCorpus ==
    /\ collection = <<>>
    /\ faiss_store.vecs = <<>>
    /\ metadata_store = EmptyDict
    /\ tfidf_rows = <<>>

\* C14: on an index to which no chunk was added, the index search, the dense search
\* and the sparse search return the empty list and so does retrieve, without raising,
\* for every query, k and backend.
C14_EmptyCorpusSafe ==
    (Retrieved /\ EmptyCorpus) =>
        /\ ~call.raised
        /\ call.found = <<>>
        /\ call.dense = <<>>
        /\ call.sparse = <<>>
        /\ call.result = <<>>

\* C14 witness: a hybrid retrieve with a non-empty query on a FAISS store that was
\* never written (self.store is None, so the index search raised).
C14_Witness ==
    /\ HybridRetrieved /\ EmptyCorpus /\ ~IsBlank(call.query)
    /\ store_type = "faiss" /\ faiss_store.none /\ call.dense_failed

\* the metadata of doc has the filter's value under the filter's key (as the value
\* itself or as an item of a list)
HasFilterValue(doc, f) ==
    /\ f.key = "crime_types"
    /\ \E i \in 1..Len(doc.crime_types.items) : doc.crime_types.items[i] = f.value

\* C15: when a metadata filter is given, every result of VectorStore.search and of
\* _dense_search has the filter value under the filter key, on either backend.
C15_FilterRespected ==
    (Retrieved /\ call.filters # NoFilter) =>
        /\ \A i \in 1..Len(call.found) : HasFilterValue(call.found[i].doc, call.filters)
        /\ \A i \in 1..Len(call.dense) : HasFilterValue(call.dense[i].doc, call.filters)

\* C15 witness: a filtered dense search returned a chunk while the collection also
\* holds a chunk without the filter value.
C15_Witness ==
    /\ Retrieved /\ call.filters # NoFilter /\ call.dense # <<>>
    /\ \E i \in 1..Len(collection) : ~HasFilterValue(collection[i].doc, call.filters)

\* C16: in hybrid mode, when the dense and sparse candidate lists together hold at
\* least k distinct chunks, retrieve returns exactly k results (stated here for k >= 1
\* and the non-empty queries).
\* Violated when candidates share their first 100 characters: they make one result.
C16_ExactlyK ==
    (/\ HybridRetrieved /\ call.k >= 1 /\ ~IsBlank(call.query)
     /\ Cardinality({ChromaRecord(Candidates[i].doc) : i \in 1..Len(Candidates)}) >= call.k) =>
        Len(call.result) = call.k

\* C17: with USE_HYBRID_RETRIEVAL false, retrieve runs no sparse search and no fusion:
\* it asks the index for k candidates (the default 5 when k is 0) under the filter and
\* returns those that reach the similarity threshold, with their similarities.
C17_DenseOnlyBypass ==
    (Retrieved /\ ~use_hybrid) =>
        /\ ~call.sparse_ran
        /\ call.sparse = <<>>
        /\ call.fetch = (IF call.k = 0 THEN RETRIEVAL_K ELSE call.k)
        /\ Len(call.found) <= call.fetch
        /\ call.filters # NoFilter =>
               \A i \in 1..Len(call.found) : HasFilterValue(call.found[i].doc, call.filters)
        /\ call.result = SelectSeq(call.found, LAMBDA r : r.score >= SIMILARITY_THRESHOLD)

\* C17 witness: a dense-only retrieve with k = 1 on a collection of two chunks returned
\* the one candidate it asked for.
C17_Witness ==
    /\ Retrieved /\ ~use_hybrid /\ call.k = 1
    /\ Len(collection) >= 2 /\ Len(call.result) = 1

\* C18: retrieve called with an empty or whitespace-only query returns the empty list
\* without raising, in dense-only and in hybrid mode, whatever the index holds.
\* Violated on Chroma: the zero vector embed_text returns is at distance 1.0 of every
\* stored vector, similarity 0.5, which passes the threshold.
C18_EmptyQueryEmpty ==
    (Retrieved /\ IsBlank(call.query)) => (call.result = <<>> /\ ~call.raised)

\* C19: answer_query on an empty or whitespace-only query returns a normal answer
\* result with zero retrieved documents, not the error result.
\* Violated: process_query returns a dict without "cleaned" for such a query, and
\* answer_query's processed_query["cleaned"] raises KeyError.
C19_BlankQueryAnswered ==
    (call.op = "answer_query" /\ IsBlank(call.query)) =>
        (call.status # "error" /\ call.ndocs = 0)

\* C20: when the initialization of the configured backend fails (and the fallback's
\* own calls do not), VectorStore construction falls back to the other backend and
\* completes without raising, for either configured backend type.
\* Violated: only FAISS's ImportError leads to the fallback; a failing Chroma
\* initialization, or a failing faiss.read_index, is logged and re-raised.
C20_FallbackCompletes ==
    (call.op = "new_pipeline" /\ call.primary_failed /\ ~call.fallback_failed) =>
        ~call.raised

\* C21: retrieve writes no index state (metadata store, TF-IDF matrix, vectorizer,
\* vector index), so a call that ran while another caller was inside retrieve returns
\* what it returns when run alone on the index it started on, and leaves that index
\* as it was.
C21_RetrieveReadOnly ==
    \A t \in Callers :
        callers[t].pc = "done" =>
            LET alone == RetrieveAlone(callers[t].before, use_hybrid, callers[t].k)
            IN  /\ SharedIndex = callers[t].before
                /\ callers[t].result = alone.val
                /\ callers[t].raised = alone.exc

\* C21 witness: a hybrid call that returned results from both sub-searches has
\* finished, the other caller having been inside retrieve during it, on a retriever
\* whose TF-IDF matrix is older than the metadata store.
C21_Witness ==
    \E t \in Callers :
        /\ callers[t].pc = "done" /\ callers[t].overlapped /\ use_hybrid
        /\ callers[t].dense # <<>> /\ callers[t].sparse # <<>> /\ callers[t].result # <<>>
        /\ tfidf_rows # StoreTexts(metadata_store)

\* C22: after add_documents has returned True, a VectorStore constructed anew over the
\* same directory loads a metadata store equal to the writer's in-memory store.
\* Violated: _save_metadata swallows every exception, so add_documents returns True
\* when the file could not be written (open or json.dump raised, or a chunk that
\* holds itself cannot be serialized), and _load_metadata then gives fewer entries.
C22_MetadataRoundTrips ==
    (call.op = "add_documents" /\ call.returned) =>
        LoadMetadata(metadata_file) = metadata_store

\* the vector index and the metadata store of the contents c hold the chunks
\* all_chunks that build_index built from the PDF, each once and in order, and
\* nothing else
HoldsExactly(stype, c, all_chunks) ==
    /\ IF stype = "chroma"
       THEN [i \in 1..Len(c.collection) |-> c.collection[i].doc]
                = [i \in 1..Len(all_chunks) |-> ChromaRecord(all_chunks[i])]
       ELSE c.store.vecs = all_chunks
    /\ DictValues(c.mem) = all_chunks

\* C23: a build_index call whose add_documents returned True (no library call
\* failing) leaves the vector index and the metadata store holding each chunk exactly
\* once, on an empty store and on a store that already held the document:
\* build_index(force_rebuild=True) replaces the contents.
\* Violated on FAISS: nothing is cleared, store.add appends the vectors again.
C23_EachChunkOnce ==
    (/\ call.op = "build_index" /\ call.returned /\ call.add_returned
     /\ call.fault = "none"
     /\ \/ HoldsExactly(store_type, call.before, <<>>)
        \/ HoldsExactly(store_type, call.before, call.documents)) =>
        HoldsExactly(store_type, Contents(StoreState), call.documents)

\* C24: in hybrid mode with requested count k the dense and the sparse search are each
\* asked for k' = min(2k, RETRIEVAL_K_MAX) candidates: the index returns the k' nearest
\* of the chunks that pass the filter, the sparse search looks at the k' best rows
\* whatever the filter; fusion runs on the two finished lists and its result is cut
\* to k.
\* Violated for k = 0, which "k or settings.RETRIEVAL_K" turns into 5 (C1): both
\* searches are asked for 10 candidates and the result is cut to 5.
C24_OverFetch ==
    HybridRetrieved =>
        LET k == call.k
            kp == Min(2 * k, RETRIEVAL_K_MAX)
        IN  /\ call.fetch = kp
            /\ call.sparse_fetch = kp
            /\ (store_type = "chroma" /\ ~call.dense_failed) =>
                   Len(call.found)
                       = Min(kp, Cardinality(MatchingPositions(collection, call.filters)))
            /\ ~call.sparse_failed =>
                   call.sparse = SparseOutput(metadata_store,
                                              SubSeq(call.ranked, 1, Min(kp, Len(call.ranked))),
                                              1, <<>>)
            /\ call.result = _aggregate_results(call.dense, call.sparse, k)
            /\ Len(call.result) <= k

\* C25: the sparse search for (query, k) returns at most k (document, score) pairs,
\* in order of score descending, every score above 0, and they are the best rows of
\* the index: every row whose score is positive and higher than a returned score is
\* returned too, as the metadata entry of the row's ordinal with the row's score.
C25_SparseTopK ==
    call.op = "sparse_search" =>
        /\ ~call.raised
        /\ Len(call.sparse) <= call.k
        /\ \A i, j \in 1..Len(call.sparse) :
               i < j => call.sparse[i].score >= call.sparse[j].score
        /\ \A i \in 1..Len(call.sparse) : call.sparse[i].score > 0
        /\ \A r \in 1..Len(call.ranked) :
               (/\ call.ranked[r].score > 0
                /\ \E j \in 1..Len(call.sparse) :
                       call.ranked[r].score > call.sparse[j].score) =>
                   \E j \in 1..Len(call.sparse) :
                       call.sparse[j] = [doc |-> DictGet(metadata_store, Str(call.ranked[r].idx)),
                                         score |-> call.ranked[r].score]

\* C25 witness: a sparse search returned k >= 2 results of different scores and left
\* out a row with a positive score.
C25_Witness ==
    /\ call.op = "sparse_search" /\ call.k >= 2 /\ Len(call.sparse) = call.k
    /\ call.sparse[1].score > call.sparse[Len(call.sparse)].score
    /\ \E r \in 1..Len(call.ranked) : r > call.k /\ call.ranked[r].score > 0

\* C26: on the FAISS backend the search resolves every neighbour the index reports
\* (ordinal below the size of the metadata store) to the document at that ordinal, so
\* a search for k >= 1 neighbours on an index that holds vectors, with their metadata
\* stored, returns a non-empty list when no library call raises.
\* Violated: metadata_store[idx] looks the integer ordinal up in a dict whose keys are
\* the strings str(i); the KeyError is caught and the search returns [].
C26_FaissResolves ==
    (/\ Retrieved /\ store_type = "faiss" /\ ~call.dense_failed
     /\ Len(faiss_store.vecs) >= 1
     /\ DictLen(metadata_store) >= Len(faiss_store.vecs)) =>
        call.found # <<>>

\* C27: build_index returns False whenever its add_documents call returned False, and
\* returns True after indexing only if the chunks got into the vector store.
\* Violated: the value add_documents returns is dropped and build_index returns True.
C27_FailedInsertReported ==
    (call.op = "build_index" /\ call.add_called) =>
        /\ ~call.add_returned => ~call.returned
        /\ call.returned => Contents(StoreState) # call.before

\* the moves of conversation_state along greeting -> gathering -> consent -> analysis
StateMoves ==
    {<<"greeting", "gathering">>, <<"gathering", "consent">>, <<"consent", "analysis">>}

\* C28: conversation_state only moves along greeting -> gathering -> consent ->
\* analysis under the process_* methods: after process_initial_issue the state is
\* "gathering", and a process_* call that changes the state makes one of the three
\* moves (so "analysis" is entered from "consent" only).
\* Violated: no method sets "gathering"; process_evidence sets "consent" and
\* process_consent sets "analysis" whatever the state is.
C28_StateOrder ==
    call.op \in ProcessOps =>
        /\ (call.op = "process_initial_issue" /\ call.before.conversation_state = "greeting")
               => conversation_state = "gathering"
        /\ conversation_state # call.before.conversation_state =>
               <<call.before.conversation_state, conversation_state>> \in StateMoves

\* C29: conversation_state = "analysis" implies user_ready_for_analysis, in every
\* state any sequence of process_* and reset_conversation calls reaches; and after
\* reset_conversation the manager is as a newly constructed one.
C29_ReadyInAnalysis ==
    /\ conversation_state = "analysis" => user_ready_for_analysis
    /\ call.op = "reset_conversation" => Manager = NewManager

\* C29 witness: reset_conversation has run on a manager that was in state "analysis"
\* with case details and history filled.
C29_Witness ==
    /\ call.op = "reset_conversation"
    /\ call.before.conversation_state = "analysis"
    /\ call.before.user_ready_for_analysis
    /\ call.before.case_details # NewManager.case_details
    /\ Len(call.before.conversation_history) >= 2

\* C30: in hybrid mode no two documents of the returned list have the same fusion key
\* (text[:100]), and every returned document is a document of the dense or of the
\* sparse candidate list, paired with the score accumulated under its key.
C30_NoDuplicates ==
    HybridRetrieved =>
        /\ \A i, j \in 1..Len(call.result) :
               i # j => doc_key(call.result[i].doc) # doc_key(call.result[j].doc)
        /\ \A i \in 1..Len(call.result) :
               /\ \E c \in 1..Len(Candidates) : Candidates[c].doc = call.result[i].doc
               /\ call.result[i].score
                      = DictGet(ResultScores(call.dense, call.sparse),
                                doc_key(call.result[i].doc))

\* C30 witness: a hybrid retrieve returned two documents while two of its candidates
\* had the same key.
C30_Witness ==
    /\ HybridRetrieved /\ Len(call.result) >= 2
    /\ \E i, j \in 1..Len(Candidates) :
           i < j /\ doc_key(Candidates[i].doc) = doc_key(Candidates[j].doc)

====
